---- MODULE Spec2Model ----
(***************************************************************************)
(* A state-machine model of the api-watchtower observation pipeline:       *)
(*   - the log Ingester           (internal/log/ingestion.go)              *)
(*   - the alert Manager          (internal/alert/manager.go)              *)
(*   - the probe scheduler Engine (monitoring engine)                      *)
(*   - the notification RateLimiter (notification manager)                 *)
(*   - the CorrelationEngine      (internal/alert/correlation.go)          *)
(* Each component has its own variables, actions and specification; the    *)
(* actions of one component leave the variables of the others unchanged.   *)
(***************************************************************************)
EXTENDS Integers, Sequences, FiniteSets, Bags, TLC

(***************************************************************************)
(* Bounds of the model.                                                    *)
(***************************************************************************)
MaxLogs == 4
NumCallers == 2
MaxTime == 2
MaxEvents == 2
NumHandlers == 2
NumNotifiers == 2
MaxEntries == 2
MaxFirings == 2
NumSenders == 5
MaxSends == 5
MaxAlerts == 3
MaxInFlight == 2
MaxPieces == 2
MaxPoints == 3
MaxDocs == 2
MaxWords == 2

(***************************************************************************)
(* Generic helpers.                                                        *)
(***************************************************************************)
Range(s) == { s[i] : i \in 1..Len(s) }

IsPrefix(s, t) == /\ Len(s) <= Len(t)
                  /\ \A i \in 1..Len(s) : s[i] = t[i]

RECURSIVE SelectStream(_, _, _)
SelectStream(s, app, svc) ==
    IF s = << >> THEN << >>
    ELSE LET h == Head(s)
             r == SelectStream(Tail(s), app, svc)
         IN IF h.application_id = app /\ h.service_name = svc
            THEN << h >> \o r ELSE r

\* strings.Contains on strings modelled as sequences of characters.
Contains(str, sub) ==
    \E i \in 0..(Len(str) - Len(sub)) : SubSeq(str, i + 1, i + Len(sub)) = sub

\* The orders in which a Go map iteration can yield the elements of S.
Orders(S) ==
    { q \in [1..Cardinality(S) -> S] : \A i, j \in 1..Cardinality(S) : q[i] = q[j] => i = j }

VARIABLES
    \* ---- the clock read by time.Now() ----
    now,
    \* ---- Ingester (internal/log/ingestion.go) ----
    buffer,       \* Ingester.buffer: the logs waiting to be flushed, head first
    bufferSize,   \* Ingester.bufferSize: the size-trigger threshold
    batchSize,    \* Ingester.batchSize: the most entries one flush takes
    flushPc,      \* position of the flushLoop goroutine
    batch,        \* the local slice `batch` of the flush in progress
    storage,      \* what successful BatchInsertLogs calls have stored, in order
    ingestPc,     \* position of each IngestLog caller
    ingestRet,    \* what each caller's last IngestLog returned
    ingested,     \* history: the logs appended by IngestLog, in append order
    preFlush,     \* history: buffer and append count when the flush in progress began
    observed,     \* history: the outcomes of the first BatchInsertLogs calls
    \* ---- alert Manager (internal/alert/manager.go) ----
    lastTriggered, \* Rule.LastTriggered of every rule: source id -> time
    calls,         \* the Process* calls in progress (a bag: the goroutines
                   \* running them have no identity): position, event and
                   \* the rules still to go through, in order
    returns,       \* history: how many calls returned nil and how many an error
    started,       \* number of Process* calls started so far
    alerts,        \* history: the bag of alerts built by createAlert
    gates,         \* history: per rule and source id, a summary of the
                   \* cooldown tests made by shouldTriggerAlert
    nilMaps,       \* the rules whose LastTriggered map is nil: AddRule stored
                   \* them as the caller built them, without a map
    panics,        \* number of Process* calls that panicked
    lastCreate,    \* history, kept when lastCreate.watch is set: of the last
                   \* createAlert, whether SaveAlert stored the alert, the
                   \* outcomes of the notifiers' Sends, the Send calls made
                   \* on each notifier, and what createAlert returned
    \* ---- probe scheduler Engine (monitoring engine) ----
    targets,       \* Engine.targets: target id -> registered target
    entries,       \* the entries of Engine.cron: entry id and captured target
    nextEntry,     \* the id cron gives to the next entry
    running,       \* whether Engine.cron has been started
    probed,        \* history: the target the last checkTarget ran with
    lastResult,    \* the MonitoringResult the last checkTarget returned
    probes,        \* history: the firings, the results checkTarget returned
                   \* and the results handed to the alert manager, as counts
    checked,       \* a call of checkAssertions: its target, its result and
                   \* what it returned
    \* ---- NotificationManager and its rate limiters ----
    rateLimit,     \* NotificationManager.rateLimit: source -> limiter reference
    limiters,      \* the RateLimiter objects alive: reference -> tokens, lastUpdate
    senders,       \* bag of Send calls in flight: position, source, limiter held
    sends,         \* number of Send calls started
    windowStart,   \* history: source -> time its first (empty) bucket was made
    admitted,      \* history: source -> number of Allow calls that returned true
    outcomes,      \* history: how many Send calls returned nil after dispatch,
                   \* an error, or nil without dispatch (suppressed)
    lastSend,      \* history, kept when lastSend.watch is set: of the last
                   \* Send that came to its limiter's Allow, the channels,
                   \* dispatches and outcome (send), the tokens Allow found
                   \* (had), and the time since the call made its limiter
                   \* (age; NoTime when it found one)
    \* ---- CorrelationEngine ----
    activeGroups,  \* CorrelationEngine.activeGroups: group key -> AlertGroup
    processed,     \* number of ProcessAlert calls made
    held,          \* the slice a GetActiveGroups call returned: for each
                   \* pointer in it the group's key, the group as it was at
                   \* the return (snap), the group object as it is now (obj),
                   \* and whether the object is still in activeGroups (live)
    lastResolve,   \* the last ResolveGroup call, when watched: its argument,
                   \* the time of the call and what it returned
    loopVarShared, \* the build: whether the range loop of ProcessAlert has
                   \* one rule variable for all iterations (Go before 1.22)
                   \* or a new one in each iteration
    \* ---- pure functions applied to chosen inputs ----
    keyed,         \* generateGroupKey: two (alert, rule) pairs and their keys
    patterned,     \* extractErrorPattern: a message, its pattern, and the
                   \* pattern of its pattern
    fit,           \* DBSCAN.Fit: its input and its local variables
    vectorized     \* TFIDFVectorizer: its fields, and the locals of Fit and
                   \* of one Transform call on it

ingVars == << buffer, bufferSize, batchSize, flushPc, batch, storage,
              ingestPc, ingestRet, ingested, preFlush, observed >>

mgrVars == << lastTriggered, calls, returns, started, alerts, gates,
             nilMaps, panics, lastCreate >>

prbVars == << lastResult, probes, checked >>

engVars == << targets, entries, nextEntry, running, probed, prbVars >>

ntfVars == << rateLimit, limiters, senders, sends, windowStart, admitted,
             outcomes, lastSend >>

corVars == << activeGroups, processed, held, lastResolve, loopVarShared >>

fnVars == << keyed, patterned, fit, vectorized >>

vars == << now, ingVars, mgrVars, engVars, ntfVars, corVars, fnVars >>

notIng == << now, mgrVars, engVars, ntfVars, corVars, fnVars >>
notMgr == << ingVars, engVars, ntfVars, corVars, fnVars >>
notEng == << now, ingVars, mgrVars, ntfVars, corVars, fnVars >>
notNtf == << now, ingVars, mgrVars, engVars, corVars, fnVars >>
notCor == << now, ingVars, mgrVars, engVars, ntfVars, fnVars >>
notFn == << now, ingVars, mgrVars, engVars, ntfVars, corVars >>

(***************************************************************************)
(* Ingester                                                                *)
(***************************************************************************)
Callers == 1..NumCallers

\* The raw JSON inputs of IngestLog: a document that does not parse, or a
\* parsed ApplicationLog with its four required fields (possibly empty).
ValidRaw == [ parses : {TRUE}, application_id : {"app1", "app2"},
              service_name : {"svc"}, severity : {"ERROR"}, message : {"m"} ]
InvalidRaw ==
    { [ parses |-> FALSE, application_id |-> "app1", service_name |-> "svc",
        severity |-> "ERROR", message |-> "m" ],
      [ parses |-> TRUE, application_id |-> "", service_name |-> "svc",
        severity |-> "ERROR", message |-> "m" ],
      [ parses |-> TRUE, application_id |-> "app1", service_name |-> "",
        severity |-> "ERROR", message |-> "m" ],
      [ parses |-> TRUE, application_id |-> "app1", service_name |-> "svc",
        severity |-> "", message |-> "m" ],
      [ parses |-> TRUE, application_id |-> "app1", service_name |-> "svc",
        severity |-> "ERROR", message |-> "" ] }
RawLogs == ValidRaw \cup InvalidRaw

validateLog_noMessage(log) ==
    IF log.application_id = "" THEN "application_id is required"
    ELSE IF log.service_name = "" THEN "service_name is required"
    ELSE IF log.severity = "" THEN "severity is required"
    ELSE "nil"

\* validateLog: nil iff the four required fields are non-empty.
validateLog(log) ==
    IF log.application_id = "" THEN "application_id is required"
    ELSE IF log.service_name = "" THEN "service_name is required"
    ELSE IF log.severity = "" THEN "severity is required"
    ELSE IF log.message = "" THEN "message is required"
    ELSE "nil"

\* The ApplicationLog object IngestLog allocates (&log); id stands for the
\* identity of the allocation.
NewLog(raw, n) ==
    [ id |-> n, application_id |-> raw.application_id,
      service_name |-> raw.service_name, severity |-> raw.severity,
      message |-> raw.message ]

BatchLen_whole(buf, bs) == Len(buf)

\* flush: batchSize := i.batchSize, capped by len(i.buffer).
BatchLen(buf, bs) == IF bs > Len(buf) THEN Len(buf) ELSE bs

TakeBatch_offByOne(buf, n) == SubSeq(buf, 2, n)

\* flush: copy(batch, i.buffer[:batchSize]).
TakeBatch(buf, n) == SubSeq(buf, 1, n)

Remaining_keepLast(buf, n) == SubSeq(buf, n, Len(buf))

\* flush: i.buffer = append(i.buffer[:0], i.buffer[batchSize:]...).
Remaining(buf, n) == SubSeq(buf, n + 1, Len(buf))

Requeue_atTail(b, buf) == buf \o b

Requeue_dropped(b, buf) == buf

\* flush, on error: i.buffer = append(batch, i.buffer...).
Requeue(b, buf) == b \o buf

Insert_lossy(st, b) == st \o SubSeq(b, 1, Len(b) - 1)

\* BatchInsertLogs on success: the batch is stored atomically, in order.
Insert(st, b) == st \o b

\* NewIngester; limit is the number of flush outcomes the history
\* variable observed records (it is no part of the program).
InitIngesterObserved(bs, bt, limit) ==
    /\ observed = [ limit |-> limit, flushes |-> << >> ]
    /\ buffer = << >>
    /\ bufferSize = bs
    /\ batchSize = bt
    /\ flushPc = "start"
    /\ batch = << >>
    /\ storage = << >>
    /\ ingestPc = [ c \in Callers |-> "idle" ]
    /\ ingestRet = [ c \in Callers |-> "none" ]
    /\ ingested = << >>
    /\ preFlush = [ buffer |-> << >>, count |-> 0 ]

InitIngester(bs, bt) == InitIngesterObserved(bs, bt, 0)

\* The history of flush outcomes after one more BatchInsertLogs call.
Observe(outcome) ==
    IF Len(observed.flushes) < observed.limit
    THEN [ observed EXCEPT !.flushes = Append(@, outcome) ]
    ELSE observed

\* IngestLog, lines 40-48: the input does not parse or fails validation;
\* the error is returned and nothing else happens.  (No call is made once
\* the process has ended.)
IngestReject(c) ==
    /\ flushPc # "exit"
    /\ ingestPc[c] = "idle"
    /\ \E raw \in RawLogs :
          /\ ~raw.parses \/ validateLog(raw) # "nil"
          /\ ingestRet' = [ ingestRet EXCEPT ![c] = "err" ]
    /\ UNCHANGED << buffer, bufferSize, batchSize, flushPc, batch, storage,
                    ingestPc, ingested, preFlush, observed >>
    /\ UNCHANGED notIng

\* IngestLog, lines 40-58: a valid log is appended under the mutex and
\* shouldFlush is computed from the new length.
AppendLog(c, raw, limit) ==
    /\ flushPc # "exit"
    /\ ingestPc[c] = "idle"
    /\ Len(ingested) < limit
    /\ raw.parses /\ validateLog(raw) = "nil"
    /\ LET log == NewLog(raw, Len(ingested) + 1)
           nb  == Append(buffer, log)
           shouldFlush == Len(nb) >= bufferSize
       IN /\ buffer' = nb
          /\ ingested' = Append(ingested, log)
          /\ IF shouldFlush
             THEN /\ ingestPc' = [ ingestPc EXCEPT ![c] = "trigger" ]
                  /\ UNCHANGED ingestRet
             ELSE /\ ingestRet' = [ ingestRet EXCEPT ![c] = "nil" ]
                  /\ UNCHANGED ingestPc
    /\ UNCHANGED << bufferSize, batchSize, flushPc, batch, storage, preFlush, observed >>
    /\ UNCHANGED notIng

IngestAppend(c) == \E raw \in RawLogs : AppendLog(c, raw, MaxLogs)

\* triggerFlush, the send case: flushCh is unbuffered, so the send is taken
\* only when flushLoop is blocked in its select; the loop then runs flush.
TriggerSend(c) ==
    /\ ingestPc[c] = "trigger"
    /\ flushPc = "select"
    /\ flushPc' = "flush"
    /\ ingestPc' = [ ingestPc EXCEPT ![c] = "idle" ]
    /\ ingestRet' = [ ingestRet EXCEPT ![c] = "nil" ]
    /\ UNCHANGED << buffer, bufferSize, batchSize, batch, storage,
                    ingested, preFlush, observed >>
    /\ UNCHANGED notIng

TriggerDrop_secondFlush(c) ==
    /\ ingestPc[c] = "trigger"
    /\ flushPc # "select"
    /\ ingestPc' = [ ingestPc EXCEPT ![c] = "idle" ]
    /\ ingestRet' = [ ingestRet EXCEPT ![c] = "nil" ]
    /\ batch' = TakeBatch(buffer, BatchLen(buffer, batchSize))
    /\ buffer' = Remaining(buffer, BatchLen(buffer, batchSize))
    /\ flushPc' = "insert"
    /\ UNCHANGED << bufferSize, batchSize, storage, ingested, preFlush,
                    observed >>
    /\ UNCHANGED notIng

\* triggerFlush, the default case: no receiver is waiting on flushCh and the
\* signal is dropped.
TriggerDrop(c) ==
    /\ ingestPc[c] = "trigger"
    /\ flushPc # "select"
    /\ ingestPc' = [ ingestPc EXCEPT ![c] = "idle" ]
    /\ ingestRet' = [ ingestRet EXCEPT ![c] = "nil" ]
    /\ UNCHANGED << buffer, bufferSize, batchSize, flushPc, batch, storage,
                    ingested, preFlush, observed >>
    /\ UNCHANGED notIng

\* flushLoop, lines 92-96: the goroutine started by NewIngester creates its
\* ticker and blocks in the select.
LoopStart ==
    /\ flushPc = "start"
    /\ flushPc' = "select"
    /\ UNCHANGED << buffer, bufferSize, batchSize, batch, storage,
                    ingestPc, ingestRet, ingested, preFlush, observed >>
    /\ UNCHANGED notIng

\* flushLoop, case <-ticker.C: a tick is received while the loop waits (a
\* tick that fell due during a flush is kept by the ticker's channel and
\* received on the return to the select).
TimerTick ==
    /\ flushPc = "select"
    /\ flushPc' = "flush"
    /\ UNCHANGED << buffer, bufferSize, batchSize, batch, storage,
                    ingestPc, ingestRet, ingested, preFlush, observed >>
    /\ UNCHANGED notIng

\* flush, lines 106-123: under the mutex, return on an empty buffer, else
\* move up to batchSize head entries into batch.
FlushTake ==
    /\ flushPc = "flush"
    /\ IF Len(buffer) = 0
       THEN /\ flushPc' = "select"
            /\ UNCHANGED << buffer, batch, preFlush >>
       ELSE LET n == BatchLen(buffer, batchSize)
            IN /\ batch' = TakeBatch(buffer, n)
               /\ buffer' = Remaining(buffer, n)
               /\ preFlush' = [ buffer |-> buffer, count |-> Len(ingested) ]
               /\ flushPc' = "insert"
    /\ UNCHANGED << bufferSize, batchSize, storage, ingestPc, ingestRet,
                    ingested, observed >>
    /\ UNCHANGED notIng

\* flush, line 129 with a nil error: the batch is in storage and is dropped.
InsertOk ==
    /\ flushPc = "insert"
    /\ storage' = Insert(storage, batch)
    /\ batch' = << >>
    /\ flushPc' = "select"
    /\ observed' = Observe("ok")
    /\ UNCHANGED << buffer, bufferSize, batchSize, ingestPc, ingestRet,
                    ingested, preFlush >>
    /\ UNCHANGED notIng

\* flush, lines 129-135: BatchInsertLogs returned an error (nothing was
\* stored); the batch is put back in front of the buffer under the mutex.
InsertFail ==
    /\ flushPc = "insert"
    /\ buffer' = Requeue(batch, buffer)
    /\ batch' = << >>
    /\ flushPc' = "failed"
    /\ observed' = Observe("failed")
    /\ UNCHANGED << bufferSize, batchSize, storage, ingestPc, ingestRet,
                    ingested, preFlush >>
    /\ UNCHANGED notIng

\* flush returns after a failed insert and the loop is back in its select.
FlushReturn ==
    /\ flushPc = "failed"
    /\ flushPc' = "select"
    /\ UNCHANGED << buffer, bufferSize, batchSize, batch, storage,
                    ingestPc, ingestRet, ingested, preFlush, observed >>
    /\ UNCHANGED notIng

(***************************************************************************)
(* The clock                                                               *)
(***************************************************************************)
\* Time passes between any two steps of the program.
Tick ==
    /\ now < MaxTime
    /\ now' = now + 1
    /\ UNCHANGED << ingVars, mgrVars, engVars, ntfVars, corVars, fnVars >>

\* main, lines 38-45: on the interrupt signal the HTTP server is shut down,
\* which waits for the IngestLog calls in progress, and main returns; the
\* process ends and with it the flushLoop goroutine, wherever it is.  The
\* Ingester has no stop operation and nothing calls flush on the way out.
Shutdown ==
    /\ flushPc # "exit"
    /\ \A c \in Callers : ingestPc[c] = "idle"
    /\ flushPc' = "exit"
    /\ UNCHANGED << buffer, bufferSize, batchSize, batch, storage,
                    ingestPc, ingestRet, ingested, preFlush, observed >>
    /\ UNCHANGED notIng

(***************************************************************************)
(* Alert Manager                                                           *)
(***************************************************************************)
\* The rules registered with AddRule.  Conditions is the decoded JSON of
\* Rule.Conditions; an absent clause has its zero value.
Rules ==
    [ r1 |-> [ Type |-> "monitoring", Cooldown |-> 2,
               Conditions |-> [ status_codes |-> << 500 >>, min_latency |-> 0,
                                error_match |-> << >> ] ],
      r2 |-> [ Type |-> "monitoring", Cooldown |-> 1,
               Conditions |-> [ status_codes |-> << >>, min_latency |-> 0,
                                error_match |-> << "t", "o" >> ] ],
      r3 |-> [ Type |-> "ai_analysis", Cooldown |-> 2,
               Conditions |-> [ types |-> << "error_pattern" >>,
                                severities |-> << >> ] ] ]
RuleIds == DOMAIN Rules

\* The events handed to ProcessMonitoringResult and ProcessAIAnalysis.
MonitoringResults ==
    { [ kind |-> "monitoring", TargetID |-> "t1", StatusCode |-> 500,
        ResponseTime |-> 1, Error |-> << "t", "o" >> ],
      [ kind |-> "monitoring", TargetID |-> "t1", StatusCode |-> 200,
        ResponseTime |-> 1, Error |-> << >> ],
      [ kind |-> "monitoring", TargetID |-> "", StatusCode |-> 500,
        ResponseTime |-> 1, Error |-> << >> ] }
AIAnalyses ==
    { [ kind |-> "ai_analysis", ID |-> "a1", Type |-> "error_pattern",
        Severity |-> "high" ] }
\* An analysis as detectAnomalies builds it, without an ID.
AnalyzerAnalyses ==
    { [ kind |-> "ai_analysis", ID |-> "", Type |-> "error_rate_anomaly",
        Severity |-> "high" ] }
Events == MonitoringResults \cup AIAnalyses
NoEvent == [ kind |-> "none" ]

getSourceID_placeholder(event) ==
    LET id == IF event.kind = "monitoring" THEN event.TargetID
              ELSE IF event.kind = "ai_analysis" THEN event.ID
              ELSE ""
    IN IF id = "" THEN "unknown" ELSE id

\* getSourceID.
getSourceID(event) ==
    IF event.kind = "monitoring" THEN event.TargetID
    ELSE IF event.kind = "ai_analysis" THEN event.ID
    ELSE ""

\* evaluateMonitoringConditions.
evaluateMonitoringConditions(cond, result) ==
    /\ Len(cond.status_codes) > 0 =>
          \E i \in 1..Len(cond.status_codes) :
              result.StatusCode = cond.status_codes[i]
    /\ ~(cond.min_latency > 0 /\ result.ResponseTime < cond.min_latency)
    /\ ~(cond.error_match # << >>
           /\ (result.Error = << >> \/ ~Contains(result.Error, cond.error_match)))

\* evaluateAIConditions.
evaluateAIConditions(cond, analysis) ==
    /\ Len(cond.types) > 0 =>
          \E i \in 1..Len(cond.types) : analysis.Type = cond.types[i]
    /\ Len(cond.severities) > 0 =>
          \E i \in 1..Len(cond.severities) : analysis.Severity = cond.severities[i]

\* shouldTriggerAlert, lines 120-127: the type switch over the event.
evaluateConditions(r, event) ==
    IF event.kind = "monitoring"
    THEN evaluateMonitoringConditions(Rules[r].Conditions, event)
    ELSE IF event.kind = "ai_analysis"
    THEN evaluateAIConditions(Rules[r].Conditions, event)
    ELSE FALSE

InCooldown_off(last, t, cooldown) == FALSE

InCooldown_inclusive(last, t, cooldown) == t - last <= cooldown

\* shouldTriggerAlert, line 113: time.Since(lastTriggered) < rule.Cooldown.
InCooldown(last, t, cooldown) == t - last < cooldown

\* The rules a Process* call collects under the read lock, in map order.
MatchingRules(kind) == { r \in RuleIds : Rules[r].Type = kind }

NoCreate(watch) ==
    [ watch |-> watch, saved |-> FALSE, sendOk |-> << >>, sent |-> << >>,
      ret |-> "none" ]

\* NewManager, followed by AddRule for every rule of Rules; nil: the rules
\* added without a LastTriggered map.
InitManagerRules(nil) ==
    /\ lastCreate = NoCreate(FALSE)
    /\ nilMaps = nil
    /\ panics = 0
    /\ lastTriggered = [ r \in RuleIds |-> << >> ]
    /\ calls = EmptyBag
    /\ returns = [ nil |-> 0, err |-> 0 ]
    /\ started = 0
    /\ alerts = EmptyBag
    /\ gates = [ r \in RuleIds |-> << >> ]

InitManagerWatched(watch) ==
    /\ lastCreate = NoCreate(watch)
    /\ nilMaps = { }
    /\ panics = 0
    /\ lastTriggered = [ r \in RuleIds |-> << >> ]
    /\ calls = EmptyBag
    /\ returns = [ nil |-> 0, err |-> 0 ]
    /\ started = 0
    /\ alerts = EmptyBag
    /\ gates = [ r \in RuleIds |-> << >> ]

InitManager == InitManagerWatched(FALSE)

\* History of the cooldown tests of rule r for source id s: when the first
\* test was made, how many tests were made, how many passed, and whether
\* every tested event satisfied the rule's conditions.
RecordGate(r, s, sat, passed) ==
    [ gates EXCEPT ![r] =
        [ x \in DOMAIN @ \cup { s } |->
            IF x # s THEN @[x]
            ELSE IF s \in DOMAIN @
                 THEN [ first |-> @[s].first, tests |-> @[s].tests + 1,
                        passes |-> @[s].passes + (IF passed THEN 1 ELSE 0),
                        allSat |-> @[s].allSat /\ sat ]
                 ELSE [ first |-> now, tests |-> 1,
                        passes |-> IF passed THEN 1 ELSE 0,
                        allSat |-> sat ] ] ]

\* Every state a Process* call can be in.
RuleSeqs == UNION { Orders(S) : S \in (SUBSET RuleIds) \ { { } } }
CallStates ==
    [ pc : { "gate", "create" }, event : Events \cup AnalyzerAnalyses,
      rules : RuleSeqs ]

\* The call c moves on to c2.
Replace(c, c2) == (calls (-) SetToBag({ c })) (+) SetToBag({ c2 })

\* After a rule has been dealt with: the next rule, or return nil.
NextRule(c) ==
    IF Len(c.rules) > 1
    THEN /\ calls' = Replace(c, [ c EXCEPT !.rules = Tail(@), !.pc = "gate" ])
         /\ UNCHANGED returns
    ELSE /\ calls' = calls (-) SetToBag({ c })
         /\ returns' = [ returns EXCEPT !.nil = @ + 1 ]

\* ProcessMonitoringResult / ProcessAIAnalysis, lines 63-70 and 84-91: the
\* rules of the event's type are collected under the read lock.
ProcessStart(event) ==
    /\ panics = 0
    /\ BagCardinality(calls) < NumHandlers
    /\ started < MaxEvents
    /\ started' = started + 1
    /\ \E order \in RuleSeqs :
          /\ Range(order) = MatchingRules(event.kind)
          /\ calls' = calls (+) SetToBag({ [ pc |-> "gate", event |-> event,
                                             rules |-> order ] })
    /\ UNCHANGED << now, lastTriggered, returns, alerts, gates, nilMaps,
                    panics, lastCreate >>
    /\ UNCHANGED notMgr

ProcessMonitoringResult ==
    \E result \in MonitoringResults : ProcessStart(result)

ProcessAIAnalysis ==
    \E analysis \in AIAnalyses : ProcessStart(analysis)

Stamp_onlyNew(last, sourceID, t) ==
    [ x \in DOMAIN last \cup { sourceID } |->
        IF x \in DOMAIN last THEN last[x] ELSE t ]

\* shouldTriggerAlert, line 117: rule.LastTriggered[sourceID] = time.Now().
Stamp(last, sourceID, t) ==
    [ x \in DOMAIN last \cup { sourceID } |->
        IF x = sourceID THEN t ELSE last[x] ]

\* shouldTriggerAlert: the cooldown test and the update of LastTriggered
\* under m.mu, then the evaluation of the rule's conditions.  On true the
\* caller goes on to createAlert, on false to the next rule.  The read of a
\* nil map finds nothing and the write to it panics, with m.mu locked:
\* whether the process ends or the panic is recovered, no later call gets
\* past m.mu.
ShouldTriggerAlert(c) ==
    /\ panics = 0
    /\ BagIn(c, calls)
    /\ c.pc = "gate"
    /\ LET r == Head(c.rules)
           sourceID == getSourceID(c.event)
           exists == sourceID \in DOMAIN lastTriggered[r]
           sat == evaluateConditions(r, c.event)
       IN IF sourceID = ""
          THEN /\ NextRule(c)
               /\ UNCHANGED << lastTriggered, gates, panics >>
          ELSE IF r \in nilMaps
          THEN /\ calls' = calls (-) SetToBag({ c })
               /\ panics' = panics + 1
               /\ UNCHANGED << lastTriggered, gates, returns >>
          ELSE IF exists /\ InCooldown(lastTriggered[r][sourceID], now,
                                       Rules[r].Cooldown)
          THEN /\ NextRule(c)
               /\ gates' = RecordGate(r, sourceID, sat, FALSE)
               /\ UNCHANGED << lastTriggered, panics >>
          ELSE /\ lastTriggered' =
                     [ lastTriggered EXCEPT ![r] = Stamp(@, sourceID, now) ]
               /\ gates' = RecordGate(r, sourceID, sat, TRUE)
               /\ UNCHANGED panics
               /\ IF sat
                  THEN /\ calls' = Replace(c, [ c EXCEPT !.pc = "create" ])
                       /\ UNCHANGED returns
                  ELSE NextRule(c)
    /\ UNCHANGED << now, started, alerts, nilMaps, lastCreate >>
    /\ UNCHANGED notMgr

Notify_abortOnError(sendOk) ==
    LET failures == { n \in 1..Len(sendOk) : ~sendOk[n] }
        first == IF failures = { } THEN Len(sendOk)
                 ELSE CHOOSE n \in failures : \A k \in failures : n <= k
    IN [ sent |-> [ n \in 1..Len(sendOk) |-> IF n <= first THEN 1 ELSE 0 ],
         failed |-> failures # { } ]

\* createAlert, lines 233-238: the loop over m.notifiers.  sendOk[n] is the
\* outcome of the n-th notifier's Send; an error is printed and the loop
\* goes on.  sent[n] is the number of Send calls on notifier n, failed
\* whether the loop makes createAlert fail.
Notify(sendOk) ==
    [ sent |-> [ n \in 1..Len(sendOk) |-> 1 ], failed |-> FALSE ]

RECURSIVE SumSeq(_)
SumSeq(q) == IF q = << >> THEN 0 ELSE Head(q) + SumSeq(Tail(q))

CreateAlert_goOnAfterError(c, saveOk, sendOk) ==
    /\ BagIn(c, calls)
    /\ c.pc = "create"
    /\ LET notified == Notify(sendOk)
           alert == [ rule |-> Head(c.rules),
                      source_id |-> getSourceID(c.event),
                      created_at |-> now, saved |-> saveOk,
                      sends |-> IF saveOk THEN SumSeq(notified.sent) ELSE 0 ]
       IN /\ alerts' = alerts (+) SetToBag({ alert })
          /\ NextRule(c)
          /\ lastCreate' =
                 IF lastCreate.watch
                 THEN [ lastCreate EXCEPT
                          !.saved = saveOk,
                          !.sendOk = IF saveOk THEN sendOk ELSE << >>,
                          !.sent = IF saveOk THEN notified.sent ELSE << >>,
                          !.ret = "nil" ]
                 ELSE lastCreate
    /\ UNCHANGED << now, lastTriggered, started, gates, nilMaps, panics >>
    /\ UNCHANGED notMgr

\* createAlert: the alert is built with CreatedAt = time.Now(), SaveAlert
\* succeeds or fails, and on success every notifier's Send is called.  The
\* alert records how many Send calls were made.  A createAlert error ends
\* the Process* call with that error.
CreateAlert(c, saveOk, sendOk) ==
    /\ BagIn(c, calls)
    /\ c.pc = "create"
    /\ LET r == Head(c.rules)
           notified == Notify(sendOk)
           failed == ~saveOk \/ notified.failed
           alert == [ rule |-> r, source_id |-> getSourceID(c.event),
                      created_at |-> now, saved |-> saveOk,
                      sends |-> IF saveOk THEN SumSeq(notified.sent) ELSE 0 ]
       IN /\ alerts' = alerts (+) SetToBag({ alert })
          /\ IF failed
             THEN /\ calls' = calls (-) SetToBag({ c })
                  /\ returns' = [ returns EXCEPT !.err = @ + 1 ]
             ELSE NextRule(c)
          /\ lastCreate' =
                 IF lastCreate.watch
                 THEN [ lastCreate EXCEPT
                          !.saved = saveOk,
                          !.sendOk = IF saveOk THEN sendOk ELSE << >>,
                          !.sent = IF saveOk THEN notified.sent ELSE << >>,
                          !.ret = IF failed THEN "err" ELSE "nil" ]
                 ELSE lastCreate
    /\ UNCHANGED << now, lastTriggered, started, gates, nilMaps, panics >>
    /\ UNCHANGED notMgr

CreateAlertStep(c) ==
    \E saveOk \in BOOLEAN, sendOk \in [1..NumNotifiers -> BOOLEAN] :
        CreateAlert(c, saveOk, sendOk)

NextManager ==
    \/ Tick
    \/ ProcessMonitoringResult
    \/ ProcessAIAnalysis
    \/ \E c \in CallStates : ShouldTriggerAlert(c)
    \/ \E c \in CallStates : CreateAlertStep(c)

(***************************************************************************)
(* Probe scheduler (Engine)                                                *)
(***************************************************************************)
TargetIds == { "a", "b" }

\* The targets handed to AddTarget: def distinguishes two definitions of
\* one id, frequencyOk says whether Frequency is a valid cron expression.
TargetInputs == [ ID : TargetIds, def : 1..2, frequencyOk : BOOLEAN ]
NoTarget == [ ID |-> "", def |-> 0, frequencyOk |-> FALSE ]

EntryIds == 0..(MaxEntries + 1)

\* cron.Remove: the entry with the given id is removed, if there is one.
cronRemove(es, eid) == { e \in es : e.id # eid }

\* removeTarget: for a registered id, cron.Remove(cron.EntryID(target.ID))
\* and delete(e.targets, id).  The conversion of the id string to an entry
\* id has no defined result; eid is the entry id it yields.
removeTarget(id, eid, ts, es) ==
    IF id \in DOMAIN ts
    THEN [ targets |-> [ x \in DOMAIN ts \ { id } |-> ts[x] ],
           entries |-> cronRemove(es, eid) ]
    ELSE [ targets |-> ts, entries |-> es ]

\* The response bodies of the model: the text, and for the rules that the
\* code does not evaluate what is true of the text: whether it is a JSON
\* document, the paths that resolve in it and the regular expressions that
\* match it.
ResponseBodies ==
    { [ text |-> << "o", "k" >>, json |-> FALSE, paths |-> { },
        matches |-> { "^ok" } ],
      [ text |-> << "e", "r", "r" >>, json |-> FALSE, paths |-> { },
        matches |-> { } ],
      [ text |-> << "{", "o", "k", "}" >>, json |-> TRUE,
        paths |-> { "$.ok" }, matches |-> { } ] }

\* MonitoringTarget.ResponseRules: raw JSON that json.Unmarshal does or does
\* not parse into a list of rules.
RuleSpecs ==
    { [ parses |-> FALSE, rules |-> << >> ],
      [ parses |-> TRUE, rules |-> << >> ],
      [ parses |-> TRUE,
        rules |-> << [ Type |-> "contains", Path |-> "",
                       Value |-> << "o", "k" >> ] >> ],
      [ parses |-> TRUE,
        rules |-> << [ Type |-> "json_path_exists", Path |-> "$.ok",
                       Value |-> << >> ] >> ],
      [ parses |-> TRUE,
        rules |-> << [ Type |-> "regex", Path |-> "", Value |-> "^ok" ] >> ],
      [ parses |-> TRUE,
        rules |-> << [ Type |-> "xpath", Path |-> "/ok", Value |-> << >> ] >> ],
      [ parses |-> TRUE,
        rules |-> << [ Type |-> "contains", Path |-> "",
                       Value |-> << "o", "k" >> ],
                     [ Type |-> "regex", Path |-> "", Value |-> "^ok" ] >> ] }

ExpectedStatuses == { << 200 >>, << 200, 204 >> }
StatusCodes == { 200, 204, 500 }

\* checkAssertions: the status code is one of ExpectedStatus, the rules
\* parse, and every contains rule finds its value in the body; the cases
\* json_path_exists and regex are empty and the switch has no default.
checkAssertions(target, result) ==
    /\ \E i \in 1..Len(target.ExpectedStatus) :
           result.StatusCode = target.ExpectedStatus[i]
    /\ target.ResponseRules.parses
    /\ \A i \in 1..Len(target.ResponseRules.rules) :
           LET rule == target.ResponseRules.rules[i]
           IN rule.Type = "contains" =>
                  Contains(result.ResponseBody.text, rule.Value)

\* The assertion part of the target definitions the scheduler is given.
Assertions(def) ==
    IF def = 1
    THEN [ ExpectedStatus |-> << 200 >>,
           ResponseRules |->
               [ parses |-> TRUE,
                 rules |-> << [ Type |-> "contains", Path |-> "",
                                Value |-> << "o", "k" >> ] >> ] ]
    ELSE [ ExpectedStatus |-> << 200, 204 >>,
           ResponseRules |-> [ parses |-> TRUE, rules |-> << >> ] ]

\* What happens to the request of a probe: it cannot be prepared, it fails
\* (timeout included), or a response arrives.
Responses ==
    { [ kind |-> "prepare_error", StatusCode |-> 0, ResponseBody |-> << >> ],
      [ kind |-> "request_error", StatusCode |-> 0, ResponseBody |-> << >> ] }
    \cup [ kind : { "response" }, StatusCode : { 200, 500 },
           ResponseBody : { b \in ResponseBodies : ~b.json } ]

NoResult == [ TargetID |-> "", StatusCode |-> 0, Success |-> FALSE,
              Error |-> "" ]

\* checkTarget: one MonitoringResult, whatever becomes of the request.
checkTarget(target, response) ==
    IF response.kind = "prepare_error"
    THEN [ TargetID |-> target.ID, StatusCode |-> 0, Success |-> FALSE,
           Error |-> "Failed to prepare request" ]
    ELSE IF response.kind = "request_error"
    THEN [ TargetID |-> target.ID, StatusCode |-> 0, Success |-> FALSE,
           Error |-> "Request failed" ]
    ELSE [ TargetID |-> target.ID, StatusCode |-> response.StatusCode,
           Success |-> checkAssertions(Assertions(target.def), response),
           Error |-> "" ]

\* A call of checkAssertions that has not been made.
NoCheck ==
    [ target |-> [ ExpectedStatus |-> << >>,
                   ResponseRules |-> [ parses |-> FALSE, rules |-> << >> ] ],
      result |-> [ StatusCode |-> 0, ResponseBody |-> << >> ],
      Success |-> FALSE, done |-> TRUE ]

\* The calls of checkAssertions the model makes, before they return.
CheckInputs ==
    [ target : [ ExpectedStatus : ExpectedStatuses, ResponseRules : RuleSpecs ],
      result : [ StatusCode : StatusCodes, ResponseBody : ResponseBodies ],
      Success : { FALSE }, done : { FALSE } ]

InitEngine ==
    /\ targets = << >>
    /\ entries = { }
    /\ nextEntry = 1
    /\ running = FALSE
    /\ probed = NoTarget
    /\ lastResult = NoResult
    /\ probes = [ fired |-> 0, results |-> 0, delivered |-> 0 ]

\* Engine.Start and Engine.Stop.
Start ==
    /\ ~running
    /\ running' = TRUE
    /\ UNCHANGED << targets, entries, nextEntry, probed, prbVars >>
    /\ UNCHANGED notEng

Stop ==
    /\ running
    /\ running' = FALSE
    /\ UNCHANGED << targets, entries, nextEntry, probed, prbVars >>
    /\ UNCHANGED notEng

\* AddTarget: a registered id is removed first, the target is registered,
\* and cron.AddFunc adds an entry whose closure captures the target; with an
\* invalid Frequency AddFunc fails and the error is returned.
AddTarget(target, eid) ==
    /\ nextEntry <= MaxEntries
    /\ LET rm == removeTarget(target.ID, eid, targets, entries)
       IN /\ targets' = [ x \in DOMAIN rm.targets \cup { target.ID } |->
                            IF x = target.ID THEN target ELSE rm.targets[x] ]
          /\ IF target.frequencyOk
             THEN /\ entries' = rm.entries \cup
                                  { [ id |-> nextEntry, target |-> target ] }
                  /\ nextEntry' = nextEntry + 1
             ELSE /\ entries' = rm.entries
                  /\ UNCHANGED nextEntry
    /\ UNCHANGED << running, probed, prbVars >>
    /\ UNCHANGED notEng

\* RemoveTarget(id): the exported operation, removeTarget under e.mu.
RemoveTarget(id, eid) ==
    /\ id \in DOMAIN targets
    /\ LET rm == removeTarget(id, eid, targets, entries)
       IN /\ targets' = rm.targets
          /\ entries' = rm.entries
    /\ UNCHANGED << nextEntry, running, probed, prbVars >>
    /\ UNCHANGED notEng

\* A cron entry fires: its closure runs checkTarget with the captured
\* target and drops the result checkTarget returns.
FireWith(entry, response) ==
    /\ running
    /\ entry \in entries
    /\ probes.fired < MaxFirings
    /\ probed' = entry.target
    /\ lastResult' = checkTarget(entry.target, response)
    /\ probes' = [ probes EXCEPT !.fired = @ + 1, !.results = @ + 1 ]
    /\ UNCHANGED << targets, entries, nextEntry, running, checked >>
    /\ UNCHANGED notEng

Fire(entry) == \E response \in Responses : FireWith(entry, response)

\* checkAssertions is applied to the target and result of checked.
CheckAssertions ==
    /\ ~checked.done
    /\ checked' = [ checked EXCEPT
                      !.Success = checkAssertions(checked.target,
                                                  checked.result),
                      !.done = TRUE ]
    /\ UNCHANGED << targets, entries, nextEntry, running, probed, lastResult,
                    probes >>
    /\ UNCHANGED notEng

NextEngine ==
    \/ Start
    \/ Stop
    \/ \E target \in TargetInputs, eid \in EntryIds : AddTarget(target, eid)
    \/ \E id \in TargetIds, eid \in EntryIds : RemoveTarget(id, eid)
    \/ \E entry \in [ id : EntryIds, target : TargetInputs ] : Fire(entry)

(***************************************************************************)
(* NotificationManager: Send, shouldSend and the token bucket              *)
(***************************************************************************)
Sources == { "api" }

\* config.Defaults.MinInterval, in ticks of the clock.
MinInterval == 2

\* RateLimiter.burst as shouldSend sets it.
Burst == 3

\* Token counts are kept in units of 1/MinInterval of a token, so that
\* elapsed * rate, with rate = 1 / MinInterval, is the elapsed time itself.
Token == MinInterval

Min(a, b) == IF a <= b THEN a ELSE b

\* The channel lists a Send is called with; "pager" is not a channel that
\* sendToChannel knows.
ChannelLists == { << "email" >>, << "email", "slack" >>, << "pager" >> }
KnownChannels == { "email", "slack", "webhook" }

LimiterRefs == 1..(NumSenders + 1)
NoLimiter == 0

\* RateLimiter.Allow at time t: the limiter afterwards and the result.
Allow(rl, t) ==
    LET tokens == Min(Burst * Token, rl.tokens + (t - rl.lastUpdate))
    IN [ limiter |-> [ tokens |-> IF tokens >= Token THEN tokens - Token
                                  ELSE tokens,
                       lastUpdate |-> t ],
         had |-> tokens,
         ok |-> tokens >= Token ]

\* shouldSend's new limiter: tokens is left at its zero value.
NewLimiter_full(t) == [ tokens |-> Burst * Token, lastUpdate |-> t ]

NewLimiter(t) == [ tokens |-> 0, lastUpdate |-> t ]

\* The limiter objects still referenced, by the map or by a Send in flight
\* (the others are garbage).
Referenced(map, ss) ==
    ({ map[src] : src \in DOMAIN map } \cup
     { c.limiter : c \in BagToSet(ss) }) \ { NoLimiter }

Collect(ls, map, ss) ==
    [ ref \in DOMAIN ls \cap Referenced(map, ss) |-> ls[ref] ]

\* A Send call in flight: made is the time at which the call made the
\* limiter of its source, NoTime if it has not made one.
NoTime == -1
SenderStates ==
    [ pc : { "create", "allow", "stuck" }, source : Sources,
      limiter : LimiterRefs \cup { NoLimiter },
      made : { NoTime } \cup 0..MaxTime ]

\* Send: errors := make(chan error, len(channels)).
ErrorsCap_unbuffered(channels) == 0

ErrorsCap(channels) == Len(channels)

\* Send after Allow returned true: one goroutine per entry of channels calls
\* sendToChannel with that entry and puts an error into errors; Send waits
\* for all of them, closes errors and returns an error iff it holds one.
\* failed: the known channels whose delivery fails.  calls[i] is the number
\* of sendToChannel calls for entry i, stuck the number of goroutines that
\* find errors full and never finish, in which case Send never returns.
Dispatch(channels, failed) ==
    LET errs == { i \in 1..Len(channels) :
                    \/ channels[i] \notin KnownChannels
                    \/ channels[i] \in failed }
        stuck == IF Cardinality(errs) > ErrorsCap(channels)
                 THEN Cardinality(errs) - ErrorsCap(channels) ELSE 0
    IN [ channels |-> channels,
         calls |-> [ i \in 1..Len(channels) |-> 1 ],
         errs |-> errs,
         stuck |-> stuck,
         ret |-> IF stuck > 0 THEN "never"
                 ELSE IF errs # { } THEN "err" ELSE "nil" ]

\* Send when Allow returned false: nil, and nothing is dispatched.
Suppressed(channels) ==
    [ channels |-> channels, calls |-> [ i \in 1..Len(channels) |-> 0 ],
      errs |-> { }, stuck |-> 0, ret |-> "suppressed" ]

NoSend(watch) ==
    [ watch |-> watch, had |-> 0, age |-> NoTime,
      send |-> [ channels |-> << >>, calls |-> << >>, errs |-> { },
                 stuck |-> 0, ret |-> "none" ] ]

InitNotifierWatched(watch) ==
    /\ lastSend = NoSend(watch)
    /\ rateLimit = << >>
    /\ limiters = << >>
    /\ senders = EmptyBag
    /\ sends = 0
    /\ windowStart = << >>
    /\ admitted = [ src \in Sources |-> 0 ]
    /\ outcomes = [ nil |-> 0, err |-> 0, suppressed |-> 0 ]

InitNotifier == InitNotifierWatched(FALSE)

\* Send calls shouldSend, which looks the limiter of alert.Source up under
\* the read lock.
Send(source) ==
    /\ sends < MaxSends
    /\ BagCardinality(senders) < NumSenders
    /\ sends' = sends + 1
    /\ senders' = senders (+) SetToBag({
           IF source \in DOMAIN rateLimit
           THEN [ pc |-> "allow", source |-> source,
                  limiter |-> rateLimit[source], made |-> NoTime ]
           ELSE [ pc |-> "create", source |-> source,
                  limiter |-> NoLimiter, made |-> NoTime ] })
    /\ UNCHANGED << rateLimit, limiters, windowStart, admitted, outcomes,
                    lastSend >>
    /\ UNCHANGED notNtf

\* shouldSend, no limiter found: under the write lock a new limiter with no
\* tokens and lastUpdate = time.Now() is made and put into the map.
CreateLimiter(c) ==
    /\ BagIn(c, senders)
    /\ c.pc = "create"
    /\ LET ref == CHOOSE r \in LimiterRefs : r \notin DOMAIN limiters
           c2 == [ c EXCEPT !.pc = "allow", !.limiter = ref, !.made = now ]
           ss == (senders (-) SetToBag({ c })) (+) SetToBag({ c2 })
           map == [ src \in DOMAIN rateLimit \cup { c.source } |->
                      IF src = c.source THEN ref ELSE rateLimit[src] ]
           ls == [ r \in DOMAIN limiters \cup { ref } |->
                     IF r = ref THEN NewLimiter(now)
                     ELSE limiters[r] ]
       IN /\ senders' = ss
          /\ rateLimit' = map
          /\ limiters' = Collect(ls, map, ss)
    /\ windowStart' =
           IF c.source \in DOMAIN windowStart THEN windowStart
           ELSE [ src \in DOMAIN windowStart \cup { c.source } |->
                    IF src = c.source THEN now ELSE windowStart[src] ]
    /\ UNCHANGED << sends, admitted, outcomes, lastSend >>
    /\ UNCHANGED notNtf

\* The rest of Send: limiter.Allow(); when it refuses Send returns nil, else
\* every channel is dispatched to and Send returns an error iff a dispatch
\* failed (failed: the known channels whose delivery fails).
AllowAndDispatch(c, channels, failed) ==
    /\ BagIn(c, senders)
    /\ c.pc = "allow"
    /\ LET res == Allow(limiters[c.limiter], now)
           send == IF res.ok THEN Dispatch(channels, failed)
                   ELSE Suppressed(channels)
           ss == IF send.ret = "never"
                 THEN (senders (-) SetToBag({ c }))
                          (+) SetToBag({ [ c EXCEPT !.pc = "stuck" ] })
                 ELSE senders (-) SetToBag({ c })
           ls == [ limiters EXCEPT ![c.limiter] = res.limiter ]
       IN /\ senders' = ss
          /\ limiters' = Collect(ls, rateLimit, ss)
          /\ admitted' = [ admitted EXCEPT ![c.source] =
                             IF res.ok THEN @ + 1 ELSE @ ]
          /\ outcomes' =
                 IF send.ret = "suppressed"
                 THEN [ outcomes EXCEPT !.suppressed = @ + 1 ]
                 ELSE IF send.ret = "err"
                 THEN [ outcomes EXCEPT !.err = @ + 1 ]
                 ELSE IF send.ret = "nil"
                 THEN [ outcomes EXCEPT !.nil = @ + 1 ]
                 ELSE outcomes
          /\ lastSend' =
                 IF lastSend.watch
                 THEN [ lastSend EXCEPT
                          !.send = send,
                          !.had = res.had,
                          !.age = IF c.made = NoTime THEN NoTime
                                  ELSE now - c.made ]
                 ELSE lastSend
    /\ UNCHANGED << rateLimit, sends, windowStart >>
    /\ UNCHANGED notNtf

SendReturn(c) ==
    \E channels \in ChannelLists, failed \in SUBSET { "email", "slack" } :
        AllowAndDispatch(c, channels, failed)

NextNotifier ==
    \/ Tick
    \/ \E source \in Sources : Send(source)
    \/ \E c \in SenderStates : CreateLimiter(c)
    \/ \E c \in SenderStates : SendReturn(c)

(***************************************************************************)
(* CorrelationEngine                                                       *)
(***************************************************************************)
\* CorrelationEngine.rules as handed to NewCorrelationEngine.  TimeWindow is
\* in ticks of the clock; one tick is the group TTL of 24 hours.
CorrelationRules ==
    << [ ID |-> "c1",
         Conditions |-> << [ Field |-> "severity", Operator |-> "equals",
                             Value |-> "high" ] >>,
         GroupBy |-> << "source" >>, MinCount |-> 2, TimeWindow |-> 1 ],
       [ ID |-> "c2",
         Conditions |-> << [ Field |-> "type", Operator |-> "in",
                             Value |-> { "monitoring", "ai_analysis" } ] >>,
         GroupBy |-> << "type", "severity" >>, MinCount |-> 1,
         TimeWindow |-> 3 ] >>

\* CorrelationEngine.groupTTL, in ticks.
groupTTL == 1

\* The alerts handed to ProcessAlert at time t; CreatedAt is not later
\* than t.
AlertInputs(t) ==
    [ Type : { "monitoring" }, Source : { "a", "b" },
      Severity : { "high", "low" }, CreatedAt : 0..t ]

\* The value of an alert's field; the alerts of the model carry no details.
FieldValue(alert, field) ==
    CASE field = "type" -> alert.Type
      [] field = "source" -> alert.Source
      [] field = "severity" -> alert.Severity
      [] OTHER -> ""

\* matchesCondition, for the operators the rules of the model use.
matchesCondition(alert, cond) ==
    LET fieldValue == FieldValue(alert, cond.Field)
    IN /\ cond.Field \in { "type", "source", "severity" }
       /\ CASE cond.Operator = "equals" -> fieldValue = cond.Value
            [] cond.Operator = "in" -> fieldValue \in cond.Value
            [] OTHER -> FALSE

matchesRule(alert, rule) ==
    \A i \in 1..Len(rule.Conditions) :
        matchesCondition(alert, rule.Conditions[i])

\* strings.Join(parts, ":") for the parts from position i on.
RECURSIVE JoinFrom(_, _)
JoinFrom(parts, i) ==
    IF i > Len(parts) THEN ""
    ELSE IF i = Len(parts) THEN parts[i]
    ELSE parts[i] \o ":" \o JoinFrom(parts, i + 1)

generateGroupKey(alert, rule) ==
    JoinFrom(<< rule.ID >> \o
             [ i \in 1..Len(rule.GroupBy) |->
                 FieldValue(alert, rule.GroupBy[i]) ], 1)

\* The alerts updateGroupStatus keeps at time t under a time window.
KeepRecent(kept, t, window) ==
    SelectSeq(kept, LAMBDA a : a.CreatedAt > t - window)

updateGroupStatus_keepResolved(group, r, t) ==
    LET rule == CorrelationRules[r]
        activeAlerts == KeepRecent(group.Alerts, t, rule.TimeWindow)
    IN [ group EXCEPT
           !.Alerts = activeAlerts,
           !.Status = IF group.Status = "resolved" THEN "resolved"
                      ELSE IF Len(activeAlerts) >= rule.MinCount
                      THEN "critical" ELSE "active",
           !.Score = [ num |-> Len(activeAlerts), den |-> rule.MinCount ] ]

\* updateGroupStatus at time t, group.Rule pointing to rule number r.
\* Score is kept as the fraction num / den.
updateGroupStatus(group, r, t) ==
    LET rule == CorrelationRules[r]
        activeAlerts == KeepRecent(group.Alerts, t, rule.TimeWindow)
    IN [ group EXCEPT
           !.Alerts = activeAlerts,
           !.Status = IF Len(activeAlerts) >= rule.MinCount
                      THEN "critical" ELSE "active",
           !.Score = [ num |-> Len(activeAlerts), den |-> rule.MinCount ] ]

\* getOrCreateGroup at time t.  Rule is the number of the rule that
\* group.Rule points to, origin the number of the rule the group was
\* made for.
getOrCreateGroup(groups, key, r, t) ==
    IF key \in DOMAIN groups THEN groups[key]
    ELSE [ ID |-> key, Rule |-> r, origin |-> r, Alerts |-> << >>,
           FirstSeen |-> t, LastSeen |-> 0, Status |-> "active",
           Score |-> [ num |-> 0, den |-> 1 ] ]

\* The loop of ProcessAlert from rule number r on.  A group found in the
\* map is updated under the rule its Rule pointer leads to; a group made in
\* this iteration under rule r, which its pointer leads to at this moment.
RECURSIVE ProcessRules(_, _, _, _)
ProcessRules(groups, alert, r, t) ==
    IF r > Len(CorrelationRules) THEN groups
    ELSE IF ~matchesRule(alert, CorrelationRules[r])
    THEN ProcessRules(groups, alert, r + 1, t)
    ELSE LET key == generateGroupKey(alert, CorrelationRules[r])
             group == getOrCreateGroup(groups, key, r, t)
             pointee == IF key \in DOMAIN groups THEN group.Rule ELSE r
             added == [ group EXCEPT !.Alerts = Append(@, alert),
                                     !.LastSeen = alert.CreatedAt ]
             updated == updateGroupStatus(added, pointee, t)
         IN ProcessRules([ k \in DOMAIN groups \cup { key } |->
                             IF k = key THEN updated ELSE groups[k] ],
                         alert, r + 1, t)

\* With one rule variable for the whole loop, the Rule pointer of every
\* group made in a call leads to that variable, which holds the last rule
\* when the loop is over.
AfterLoop(before, after) ==
    [ k \in DOMAIN after |->
        IF loopVarShared /\ k \notin DOMAIN before
        THEN [ after[k] EXCEPT !.Rule = Len(CorrelationRules) ]
        ELSE after[k] ]

NoHeld == [ returned |-> FALSE, groups |-> << >> ]

\* The group objects a returned slice points to, after a step that leaves
\* the map as groups: an object still in the map is the map's group, an
\* object deleted from the map stays as it was.
Sync(h, groups) ==
    [ h EXCEPT !.groups =
        [ i \in 1..Len(h.groups) |->
            IF ~h.groups[i].live THEN h.groups[i]
            ELSE IF h.groups[i].key \in DOMAIN groups
            THEN [ h.groups[i] EXCEPT !.obj = groups[h.groups[i].key] ]
            ELSE [ h.groups[i] EXCEPT !.live = FALSE ] ] ]

NoResolve(watch) ==
    [ watch |-> watch, id |-> "", at |-> NoTime, ret |-> "none" ]

InitCorrelationWatched(shared, watch) ==
    /\ held = NoHeld
    /\ lastResolve = NoResolve(watch)
    /\ activeGroups = << >>
    /\ processed = 0
    /\ loopVarShared = shared

InitCorrelation(shared) ==
    /\ held = NoHeld
    /\ lastResolve = NoResolve(FALSE)
    /\ activeGroups = << >>
    /\ processed = 0
    /\ loopVarShared = shared

\* ProcessAlert, under ce.mu from start to end.
ProcessAlert(alert) ==
    /\ processed < MaxAlerts
    /\ alert.CreatedAt <= now
    /\ processed' = processed + 1
    /\ activeGroups' =
           AfterLoop(activeGroups, ProcessRules(activeGroups, alert, 1, now))
    /\ held' = Sync(held, activeGroups')
    /\ UNCHANGED << lastResolve, loopVarShared >>
    /\ UNCHANGED notCor

Expired_atTTL(group, t) == t - group.LastSeen >= groupTTL

\* cleanup, line 233: now.Sub(group.LastSeen) > ce.groupTTL.
Expired(group, t) == t - group.LastSeen > groupTTL

\* cleanup, one sweep of cleanupRoutine.
cleanup ==
    /\ activeGroups' =
           [ k \in { g \in DOMAIN activeGroups :
                       ~Expired(activeGroups[g], now) } |->
               activeGroups[k] ]
    /\ held' = Sync(held, activeGroups')
    /\ UNCHANGED << processed, lastResolve, loopVarShared >>
    /\ UNCHANGED notCor

\* ResolveGroup(groupID): the group of the map is set to resolved and nil is
\* returned; for an id that is not in the map an error is returned.
ResolveGroup(groupID) ==
    /\ LET exists == groupID \in DOMAIN activeGroups
       IN /\ activeGroups' =
                 IF exists
                 THEN [ activeGroups EXCEPT ![groupID].Status = "resolved" ]
                 ELSE activeGroups
          /\ lastResolve' =
                 IF lastResolve.watch
                 THEN [ lastResolve EXCEPT
                          !.id = groupID, !.at = now,
                          !.ret = IF exists THEN "nil" ELSE "err" ]
                 ELSE lastResolve
    /\ held' = Sync(held, activeGroups')
    /\ UNCHANGED << processed, loopVarShared >>
    /\ UNCHANGED notCor

Less_ascending(g1, g2) ==
    g1.Score.num * g2.Score.den < g2.Score.num * g1.Score.den

\* GetActiveGroups, lines 252-254: the less function handed to sort.Slice,
\* groups[i].Score > groups[j].Score, on scores kept as fractions.
Less(g1, g2) ==
    g1.Score.num * g2.Score.den > g2.Score.num * g1.Score.den

\* The slices GetActiveGroups can return for a map: the keys of the groups
\* that are not resolved, collected in the order of the map iteration and
\* sorted by a sort that is not stable.
GetActiveGroupsResults(groups) ==
    { q \in Orders({ k \in DOMAIN groups : groups[k].Status # "resolved" }) :
        \A i, j \in 1..Len(q) : i < j => ~Less(groups[q[j]], groups[q[i]]) }

\* GetActiveGroups, under the read lock: the slice returned holds the
\* pointers found in the map.
GetActiveGroups ==
    /\ ~held.returned
    /\ \E q \in GetActiveGroupsResults(activeGroups) :
          held' = [ returned |-> TRUE,
                    groups |-> [ i \in 1..Len(q) |->
                                  [ key |-> q[i], snap |-> activeGroups[q[i]],
                                    obj |-> activeGroups[q[i]],
                                    live |-> TRUE ] ] ]
    /\ UNCHANGED << activeGroups, processed, lastResolve, loopVarShared >>
    /\ UNCHANGED notCor

\* Inputs of generateGroupKey: rules with distinct ids, and alerts whose
\* type and source are free text that may hold the separator.
KeyRules ==
    { [ ID |-> "c1", GroupBy |-> << "type", "source" >> ],
      [ ID |-> "c1:x", GroupBy |-> << "source" >> ],
      [ ID |-> "c2", GroupBy |-> << "source" >> ] }
KeyAlerts ==
    [ Type : { "x", "x:y" }, Source : { "z", "y:z", "y" },
      Severity : { "high" } ]
NoKeys ==
    [ done |-> TRUE, alert1 |-> << >>, rule1 |-> << >>, alert2 |-> << >>,
      rule2 |-> << >>, key1 |-> "", key2 |-> "" ]
KeyInputs ==
    [ done : { FALSE }, alert1 : KeyAlerts, rule1 : KeyRules,
      alert2 : KeyAlerts, rule2 : KeyRules, key1 : { "" }, key2 : { "" } ]

\* ProcessAlert, line 84, for the two pairs of keyed: the keys under which
\* getOrCreateGroup looks the groups up.
GenerateGroupKeys ==
    /\ ~keyed.done
    /\ keyed' = [ keyed EXCEPT
                    !.key1 = generateGroupKey(keyed.alert1, keyed.rule1),
                    !.key2 = generateGroupKey(keyed.alert2, keyed.rule2),
                    !.done = TRUE ]
    /\ UNCHANGED << patterned, fit, vectorized >>
    /\ UNCHANGED notFn

GroupKeys ==
    { generateGroupKey(alert, CorrelationRules[r]) :
        alert \in AlertInputs(0), r \in 1..Len(CorrelationRules) }

NextCorrelation ==
    \/ Tick
    \/ \E alert \in AlertInputs(MaxTime) : ProcessAlert(alert)
    \/ cleanup
    \/ \E groupID \in GroupKeys : ResolveGroup(groupID)

(***************************************************************************)
(* AI analyzer: extractErrorPattern (internal/ai/analyzer.go)              *)
(***************************************************************************)
\* A message is a sequence of characters.
Digits ==
    { "0", "1", "2", "3", "4", "5", "6", "7", "8", "9" }
HexLetters ==
    { "a", "b", "c", "d", "e", "f", "A", "B", "C", "D", "E", "F" }
Letters ==
    { "a", "b", "c", "d", "e", "f", "g", "h", "i", "j", "k", "l", "m",
      "n", "o", "p", "q", "r", "s", "t", "u", "v", "w", "x", "y", "z",
      "A", "B", "C", "D", "E", "F", "G", "H", "I", "J", "K", "L", "M",
      "N", "O", "P", "Q", "R", "S", "T", "U", "V", "W", "X", "Y", "Z" }
HexDigits == Digits \cup HexLetters
\* [a-zA-Z0-9._%+-] and [a-zA-Z0-9.-]
LocalChars == Letters \cup Digits \cup { ".", "_", "%", "+", "-" }
DomainChars == Letters \cup Digits \cup { ".", "-" }

\* The character at position i, no character outside the message.
At(s, i) == IF i >= 1 /\ i <= Len(s) THEN s[i] ELSE ""

AllIn(s, a, b, S) == \A k \in a..b : At(s, k) \in S

\* The last position of the longest run of characters of S that starts at
\* position i (i - 1 if there is none).
RunEnd(s, i, S) ==
    LET stops == { k \in i..(Len(s) + 1) : At(s, k) \notin S }
    IN (CHOOSE k \in stops : \A j \in stops : k <= j) - 1

\* \d+
matchDigits(s, i) ==
    IF At(s, i) \in Digits THEN RunEnd(s, i, Digits) - i + 1 ELSE 0

\* [0-9a-fA-F]{8}-[0-9a-fA-F]{4}-[0-9a-fA-F]{4}-[0-9a-fA-F]{4}-[0-9a-fA-F]{12}
matchUUID(s, i) ==
    IF /\ AllIn(s, i, i + 7, HexDigits) /\ At(s, i + 8) = "-"
       /\ AllIn(s, i + 9, i + 12, HexDigits) /\ At(s, i + 13) = "-"
       /\ AllIn(s, i + 14, i + 17, HexDigits) /\ At(s, i + 18) = "-"
       /\ AllIn(s, i + 19, i + 22, HexDigits) /\ At(s, i + 23) = "-"
       /\ AllIn(s, i + 24, i + 35, HexDigits)
    THEN 36 ELSE 0

\* \d{4}-\d{2}-\d{2}[T ]\d{2}:\d{2}:\d{2}(?:\.\d+)?(?:Z|[+-]\d{2}:?\d{2})?
matchTimestamp(s, i) ==
    LET two(p) == AllIn(s, p, p + 1, Digits)
        base == /\ AllIn(s, i, i + 3, Digits) /\ At(s, i + 4) = "-"
                /\ two(i + 5) /\ At(s, i + 7) = "-"
                /\ two(i + 8) /\ At(s, i + 10) \in { "T", " " }
                /\ two(i + 11) /\ At(s, i + 13) = ":"
                /\ two(i + 14) /\ At(s, i + 16) = ":"
                /\ two(i + 17)
        afterFraction ==
            IF At(s, i + 19) = "." /\ At(s, i + 20) \in Digits
            THEN RunEnd(s, i + 20, Digits) + 1 ELSE i + 19
        zone(p) ==
            IF At(s, p) = "Z" THEN 1
            ELSE IF At(s, p) \in { "+", "-" } /\ two(p + 1)
            THEN IF At(s, p + 3) = ":" /\ two(p + 4) THEN 6
                 ELSE IF two(p + 3) THEN 5 ELSE 0
            ELSE 0
    IN IF base THEN afterFraction + zone(afterFraction) - i ELSE 0

\* [a-zA-Z0-9._%+-]+@[a-zA-Z0-9.-]+\.[a-zA-Z]{2,}: the local part runs up
\* to the "@"; the domain part is as long as it can be, so the dot is the
\* last one of the domain run that two letters follow.
matchEmail(s, i) ==
    IF At(s, i) \notin LocalChars THEN 0
    ELSE LET at == RunEnd(s, i, LocalChars) + 1
         IN IF At(s, at) # "@" THEN 0
            ELSE LET e == RunEnd(s, at + 1, DomainChars)
                     dots == { p \in (at + 2)..e :
                                 /\ s[p] = "."
                                 /\ At(s, p + 1) \in Letters
                                 /\ At(s, p + 2) \in Letters }
                 IN IF dots = { } THEN 0
                    ELSE LET dot == CHOOSE p \in dots : \A q \in dots : q <= p
                         IN RunEnd(s, dot + 1, Letters) - i + 1

\* The length of the match of the expression that starts at position i,
\* 0 if there is none.
matchLen(kind, s, i) ==
    CASE kind = "digits" -> matchDigits(s, i)
      [] kind = "uuid" -> matchUUID(s, i)
      [] kind = "timestamp" -> matchTimestamp(s, i)
      [] kind = "email" -> matchEmail(s, i)

\* Regexp.ReplaceAllString from position i on: the leftmost match is
\* replaced and the search goes on behind it.
RECURSIVE ReplaceFrom(_, _, _, _)
ReplaceFrom(kind, repl, s, i) ==
    LET starts == { k \in i..Len(s) : matchLen(kind, s, k) > 0 }
    IN IF starts = { } THEN SubSeq(s, i, Len(s))
       ELSE LET k == CHOOSE p \in starts : \A q \in starts : p <= q
            IN SubSeq(s, i, k - 1) \o repl
                   \o ReplaceFrom(kind, repl, s, k + matchLen(kind, s, k))

ReplaceAllString(kind, s, repl) == ReplaceFrom(kind, repl, s, 1)

\* extractErrorPattern: the four replacements in the order of the code.
extractErrorPattern(message) ==
    LET numbers == ReplaceAllString("digits", message, << "N" >>)
        uuids == ReplaceAllString("uuid", numbers, << "U", "U", "I", "D" >>)
        stamps == ReplaceAllString("timestamp", uuids,
                      << "T", "I", "M", "E", "S", "T", "A", "M", "P" >>)
    IN ReplaceAllString("email", stamps, << "E", "M", "A", "I", "L" >>)

\* Pieces of messages, and the messages made of up to MaxPieces of them.
ExampleMessage ==
    << "u", "s", "e", "r", " ", "4", "2", " ", "a", "t", " ", "2", "0",
       "2", "4", "-", "0", "1", "-", "0", "2", "T", "0", "3", ":", "0",
       "4", ":", "0", "5", "Z", " ", "f", "r", "o", "m", " ", "a", "@",
       "b", ".", "c", "o", " ", "i", "d", " ", "5", "5", "0", "e", "8",
       "4", "0", "0", "-", "e", "2", "9", "b", "-", "4", "1", "d", "4",
       "-", "a", "7", "1", "6", "-", "4", "4", "6", "6", "5", "5", "4",
       "4", "0", "0", "0", "0" >>
Pieces ==
    { ExampleMessage,
      << "u", "s", "e", "r", " " >>,
      << "4", "2" >>,
      << " ", "f", "a", "i", "l", "e", "d", " ", "3", " ", "t", "i", "m",
         "e", "s", " " >>,
      << "2", "0", "2", "4", "-", "0", "1", "-", "0", "2", "T", "0", "3",
         ":", "0", "4", ":", "0", "5", "Z" >>,
      << "a", "@", "b", ".", "c", "o" >>,
      << "@", "c", ".", "d", "e" >>,
      << "a", "a", "a", "a", "a", "a", "a", "a", "-", "a", "a", "a", "a",
         "-", "a", "a", "a", "a", "-", "a", "a", "a", "a", "-", "a", "a",
         "a", "a", "a", "a", "a", "a", "a", "a", "a", "a" >>,
      << "b", "b", "b", "b", "b", "b", "b", "-", "b", "b", "b", "b", "-",
         "b", "b", "b", "b", "-", "b", "b", "b", "b", "-", "b", "b", "b",
         "b", "b", "b", "b", "b", "b", "b", "b", "b" >>,
      << "5", "5", "0", "e", "8", "4", "0", "0", "-", "e", "2", "9", "b",
         "-", "4", "1", "d", "4", "-", "a", "7", "1", "6", "-", "4", "4",
         "6", "6", "5", "5", "4", "4", "0", "0", "0", "0" >> }

RECURSIVE Flatten(_)
Flatten(q) == IF q = << >> THEN << >> ELSE Head(q) \o Flatten(Tail(q))

Messages ==
    { Flatten(q) : q \in UNION { [1..n -> Pieces] : n \in 1..MaxPieces } }

NoPattern == [ done |-> TRUE, message |-> << >>, once |-> << >>,
              twice |-> << >> ]
PatternInputs ==
    [ done : { FALSE }, message : Messages, once : { << >> },
      twice : { << >> } ]

\* extractErrorPattern applied to the message of patterned, and again to
\* its result.
ExtractErrorPattern ==
    /\ ~patterned.done
    /\ LET once == extractErrorPattern(patterned.message)
       IN patterned' = [ patterned EXCEPT
                           !.once = once,
                           !.twice = extractErrorPattern(once),
                           !.done = TRUE ]
    /\ UNCHANGED << keyed, fit, vectorized >>
    /\ UNCHANGED notFn

(***************************************************************************)
(* AI analyzer: DBSCAN (internal/ai/clustering.go)                         *)
(***************************************************************************)
\* The vectors handed to Fit: the zero vector and five directions of the
\* plane, 26.6, 18.4, 18.4 and 26.6 degrees apart.
Vectors ==
    { << 0, 0 >>, << 1, 0 >>, << 2, 1 >>, << 1, 1 >>, << 1, 2 >>, << 0, 1 >> }

\* DBSCAN.Eps = 1 - sqrt(3/4), the cosine distance of two vectors 30 degrees
\* apart, given by the square of 1 - Eps.
CosSqNum == 3
CosSqDen == 4

RECURSIVE DotFrom(_, _, _)
DotFrom(a, b, k) ==
    IF k > Len(a) THEN 0 ELSE a[k] * b[k] + DotFrom(a, b, k + 1)

\* cosineDistance(a, b) <= d.Eps: the distance is 1 when a norm is 0, else
\* 1 - dot / (sqrt(normA) * sqrt(normB)).
WithinEps(a, b) ==
    LET dotProduct == DotFrom(a, b, 1)
        normA == DotFrom(a, a, 1)
        normB == DotFrom(b, b, 1)
    IN /\ normA # 0
       /\ normB # 0
       /\ dotProduct >= 0
       /\ CosSqDen * dotProduct * dotProduct >= CosSqNum * normA * normB

RECURSIVE QueryFrom(_, _, _)
QueryFrom(vectors, point, k) ==
    IF k > Len(vectors) THEN << >>
    ELSE (IF WithinEps(point, vectors[k]) THEN << k >> ELSE << >>)
             \o QueryFrom(vectors, point, k + 1)

regionQuery_others(vectors, pointIdx) ==
    SelectSeq(QueryFrom(vectors, vectors[pointIdx], 1),
              LAMBDA k : k # pointIdx)

\* regionQuery: the indices of the vectors within Eps of the point, in
\* order; the point itself is among them unless it is the zero vector.
regionQuery(vectors, pointIdx) == QueryFrom(vectors, vectors[pointIdx], 1)

Unvisited == -1
Noise == 0

NoFit ==
    [ pc |-> "done", vectors |-> << >>, MinPoints |-> 0, labels |-> << >>,
      i |-> 1, clusterID |-> 0, seedSet |-> << >> ]
FitInputs ==
    { [ pc |-> "loop", vectors |-> vs, MinPoints |-> mp,
        labels |-> [ k \in 1..Len(vs) |-> Unvisited ],
        i |-> 1, clusterID |-> 0, seedSet |-> << >> ] :
      vs \in UNION { [1..n -> Vectors] : n \in 1..MaxPoints },
      mp \in { 2, 3 } }

\* Fit, lines 102-114: one pass of the loop over the points, up to the
\* start of the expansion of a new cluster.
FitLoop ==
    /\ fit.pc = "loop"
    /\ fit.i <= Len(fit.vectors)
    /\ LET neighbors == regionQuery(fit.vectors, fit.i)
       IN fit' =
            IF fit.labels[fit.i] # Unvisited
            THEN [ fit EXCEPT !.i = @ + 1 ]
            ELSE IF Len(neighbors) < fit.MinPoints
            THEN [ fit EXCEPT !.labels[fit.i] = Noise, !.i = @ + 1 ]
            ELSE [ fit EXCEPT !.clusterID = @ + 1,
                              !.labels[fit.i] = fit.clusterID + 1,
                              !.seedSet = neighbors,
                              !.pc = "expand" ]
    /\ UNCHANGED << keyed, patterned, vectorized >>
    /\ UNCHANGED notFn

\* Fit, lines 118-131: one pass of the loop over seedSet, or its end.
FitExpand ==
    /\ fit.pc = "expand"
    /\ fit' =
         IF fit.seedSet = << >>
         THEN [ fit EXCEPT !.pc = "loop", !.i = @ + 1 ]
         ELSE LET currentPoint == Head(fit.seedSet)
                  rest == Tail(fit.seedSet)
                  newNeighbors == regionQuery(fit.vectors, currentPoint)
              IN IF fit.labels[currentPoint] = Noise
                 THEN [ fit EXCEPT !.seedSet = rest,
                                   !.labels[currentPoint] = fit.clusterID ]
                 ELSE IF fit.labels[currentPoint] = Unvisited
                 THEN [ fit EXCEPT
                          !.seedSet =
                              IF Len(newNeighbors) >= fit.MinPoints
                              THEN rest \o newNeighbors ELSE rest,
                          !.labels[currentPoint] = fit.clusterID ]
                 ELSE [ fit EXCEPT !.seedSet = rest ]
    /\ UNCHANGED << keyed, patterned, vectorized >>
    /\ UNCHANGED notFn

\* Fit, line 134: return labels.
FitReturn ==
    /\ fit.pc = "loop"
    /\ fit.i > Len(fit.vectors)
    /\ fit' = [ fit EXCEPT !.pc = "done" ]
    /\ UNCHANGED << keyed, patterned, vectorized >>
    /\ UNCHANGED notFn

NextFit == FitLoop \/ FitExpand \/ FitReturn

(***************************************************************************)
(* TFIDFVectorizer (internal/ai/clustering.go).  A text is given as the    *)
(* sequence of the fields strings.FieldsFunc splits it into; vocabulary,   *)
(* wordDocs and idf are functions whose domain is the set of the map's     *)
(* keys.  An idf value is kept as the pair (numDocs, docCount) whose       *)
(* quotient is the argument of math.Log.                                   *)
(***************************************************************************)
RawWords == { "disk", "Disk", "full", "node", "the", "io" }

ToLower(word) == IF word = "Disk" THEN "disk" ELSE word

isStopWord(word) ==
    word \in { "the", "is", "at", "which", "on", "and", "a", "in", "or",
               "an", "for", "to", "of", "with", "by" }

\* tokenize, lines 174-180: the loop over the fields.
RECURSIVE tokenize(_)
tokenize(text) ==
    IF text = << >> THEN << >>
    ELSE LET word == ToLower(Head(text))
         IN IF Len(word) > 2 /\ ~isStopWord(word)
            THEN << word >> \o tokenize(Tail(text))
            ELSE tokenize(Tail(text))

Texts == UNION { [1..n -> RawWords] : n \in 0..MaxWords }
Corpora == UNION { [1..n -> Texts] : n \in 0..MaxDocs }

EmptyMap == [ word \in { } |-> 0 ]

\* NewTFIDFVectorizer, with no Fit call under way.
NoVectorizer ==
    [ pc |-> "idle", documents |-> << >>, d |-> 1, words |-> << >>,
      seenWords |-> { }, wordDocs |-> EmptyMap, vocabulary |-> EmptyMap,
      idf |-> EmptyMap, vector |-> << >>, ret |-> "none" ]

\* NewTFIDFVectorizer followed by the entry of Fit(documents).
VectorizerInputs ==
    { [ NoVectorizer EXCEPT !.pc = "fit", !.documents = documents ] :
      documents \in Corpora }

\* v.vocabulary[word] = len(v.vocabulary), line 48: the right side is
\* evaluated before the key is stored.
Assign(vocabulary, word) ==
    (word :> Cardinality(DOMAIN vocabulary)) @@ vocabulary

\* Fit, lines 39-41: the loop reaches the next document.
VectorizerFitDoc ==
    /\ vectorized.pc = "fit"
    /\ vectorized.d <= Len(vectorized.documents)
    /\ LET words == tokenize(vectorized.documents[vectorized.d])
       IN vectorized' =
            IF words = << >>
            THEN [ vectorized EXCEPT !.d = @ + 1 ]
            ELSE [ vectorized EXCEPT !.words = words, !.seenWords = { },
                                     !.pc = "words" ]
    /\ UNCHANGED << keyed, patterned, fit >>
    /\ UNCHANGED notFn

\* Fit, lines 43-49: one pass of the loop over the words of a document.
VectorizerFitWord ==
    /\ vectorized.pc = "words"
    /\ LET word == Head(vectorized.words)
           rest == Tail(vectorized.words)
           counted == IF word \in DOMAIN vectorized.wordDocs
                      THEN vectorized.wordDocs[word] ELSE 0
       IN vectorized' =
            [ vectorized EXCEPT
                !.wordDocs = IF word \in vectorized.seenWords THEN @
                             ELSE (word :> counted + 1) @@ @,
                !.seenWords = @ \cup { word },
                !.vocabulary = Assign(@, word),
                !.words = rest,
                !.d = IF rest = << >> THEN @ + 1 ELSE @,
                !.pc = IF rest = << >> THEN "fit" ELSE "words" ]
    /\ UNCHANGED << keyed, patterned, fit >>
    /\ UNCHANGED notFn

\* Fit, lines 52-58: the inverse document frequencies, and the return.
VectorizerFitIdf ==
    /\ vectorized.pc = "fit"
    /\ vectorized.d > Len(vectorized.documents)
    /\ vectorized' =
         [ vectorized EXCEPT
             !.idf = [ word \in DOMAIN vectorized.wordDocs |->
                         << Len(vectorized.documents),
                            vectorized.wordDocs[word] >> ],
             !.pc = "fitted" ]
    /\ UNCHANGED << keyed, patterned, fit >>
    /\ UNCHANGED notFn

Zero == [ word |-> "", freq |-> 0, idf |-> << 0, 0 >> ]

\* The product freq * v.idf[word] of line 74.
Weight(v, words, word) ==
    [ word |-> word,
      freq |-> Cardinality({ k \in 1..Len(words) : words[k] = word }),
      idf |-> v.idf[word] ]

\* Transform, lines 61-79.  A write at an index that is not below
\* len(vector) panics; the words of tf are visited in the order of the
\* map's iteration, so of two writes at one index either may be the last.
Transform(text) ==
    /\ vectorized.pc = "fitted"
    /\ LET words == tokenize(text)
           n == Cardinality(DOMAIN vectorized.vocabulary)
           known == Range(words) \cap DOMAIN vectorized.vocabulary
           hit == { vectorized.vocabulary[word] : word \in known }
       IN IF \E idx \in hit : idx >= n
          THEN vectorized' = [ vectorized EXCEPT !.pc = "transformed",
                                                 !.ret = "panic" ]
          ELSE \E last \in [ hit -> known ] :
                 /\ \A idx \in hit : vectorized.vocabulary[last[idx]] = idx
                 /\ vectorized' =
                      [ vectorized EXCEPT
                          !.pc = "transformed",
                          !.ret = "vector",
                          !.vector =
                              [ idx \in 0..(n - 1) |->
                                  IF idx \in hit
                                  THEN Weight(vectorized, words, last[idx])
                                  ELSE Zero ] ]
    /\ UNCHANGED << keyed, patterned, fit >>
    /\ UNCHANGED notFn

TransformAny == \E text \in Texts : Transform(text)

NextVectorizer ==
    VectorizerFitDoc \/ VectorizerFitWord \/ VectorizerFitIdf \/ TransformAny


(***************************************************************************)
(* Specifications                                                          *)
(***************************************************************************)
\* The inputs of the pure functions: none, unless a specification applies
\* the function to chosen inputs.
InitFn ==
    /\ keyed = NoKeys
    /\ patterned = NoPattern
    /\ fit = NoFit
    /\ vectorized = NoVectorizer
    /\ vectorized = NoVectorizer

\* The components other than the ingester, after construction; shared
\* tells how the build treats the rule variable of ProcessAlert's loop,
\* which matters to the correlation engine only.
InitComponents(shared) ==
    /\ checked = NoCheck
    /\ InitFn
    /\ InitManager
    /\ InitEngine
    /\ InitNotifier
    /\ InitCorrelation(shared)

\* NewIngester: the constructor's bufferSize and batchSize come from the caller.
InitIngest ==
    \E bs \in {2}, bt \in {1, 2} : InitIngester(bs, bt)

Init ==
    /\ now = 0
    /\ InitIngest
    /\ \E shared \in BOOLEAN : InitComponents(shared)

NextIngest ==
    \/ \E c \in Callers : IngestReject(c)
    \/ \E c \in Callers : IngestAppend(c)
    \/ \E c \in Callers : TriggerSend(c)
    \/ \E c \in Callers : TriggerDrop(c)
    \/ LoopStart
    \/ TimerTick
    \/ FlushTake
    \/ InsertOk
    \/ InsertFail
    \/ FlushReturn

\* The ingester with a storage backend that may fail.
InitIngestSpec ==
    /\ now = 0
    /\ InitIngest
    /\ InitComponents(FALSE)

SpecIngest == InitIngestSpec /\ [][NextIngest]_vars

\* The ingester until the process is shut down.
NextShutdown ==
    \/ NextIngest
    \/ Shutdown

SpecShutdown == InitIngestSpec /\ [][NextShutdown]_vars

\* The ingester with a storage backend whose BatchInsertLogs always succeeds.
NextReliable ==
    \/ \E c \in Callers : IngestReject(c)
    \/ \E c \in Callers : IngestAppend(c)
    \/ \E c \in Callers : TriggerSend(c)
    \/ \E c \in Callers : TriggerDrop(c)
    \/ LoopStart
    \/ TimerTick
    \/ FlushTake
    \/ InsertOk

\* The flushLoop goroutine keeps running, its ticker keeps ticking and every
\* BatchInsertLogs call returns (it is bounded by the 10 s context).
SpecIngestLive ==
    /\ InitIngestSpec
    /\ [][NextReliable]_vars
    /\ WF_vars(LoopStart)
    /\ WF_vars(TimerTick)
    /\ WF_vars(FlushTake)
    /\ WF_vars(InsertOk)

\* Scenario: one producer pushes valid logs of one stream into an ingester
\* with bufferSize 100 and batchSize 50; storage always succeeds and the
\* ticker never fires, so only size triggers cause flushes.
ScenarioRaw == [ parses |-> TRUE, application_id |-> "app1",
                 service_name |-> "svc", severity |-> "ERROR", message |-> "m" ]

InitSizeTrigger ==
    /\ now = 0
    /\ InitIngester(100, 50)
    /\ InitComponents(FALSE)

Push == AppendLog(1, ScenarioRaw, 150)

NextSizeTrigger ==
    \/ Push
    \/ TriggerSend(1)
    \/ TriggerDrop(1)
    \/ LoopStart
    \/ FlushTake
    \/ InsertOk

SpecSizeTrigger == InitSizeTrigger /\ [][NextSizeTrigger]_vars

\* Retry on flush failure: bufferSize 10, batchSize 5, seven logs pushed
\* before the ticker's first tick; storage fails the first BatchInsertLogs
\* call and has recovered afterwards.
InitRetry ==
    /\ now = 0
    /\ InitIngesterObserved(10, 5, 3)
    /\ InitComponents(FALSE)

PushRetry == \E raw \in ValidRaw : AppendLog(1, raw, 7)

NextRetry ==
    \/ PushRetry
    \/ \E c \in Callers : IngestReject(c)
    \/ LoopStart
    \/ (Len(ingested) = 7 /\ TimerTick)
    \/ FlushTake
    \/ (observed.flushes = << >> /\ InsertFail)
    \/ (observed.flushes # << >> /\ InsertOk)
    \/ FlushReturn

SpecRetry == InitRetry /\ [][NextRetry]_vars

\* The alert manager.
InitFixedIngester ==
    /\ now = 0
    /\ InitIngester(2, 1)
    /\ InitComponents(FALSE)

SpecManager == InitFixedIngester /\ [][NextManager]_vars

\* The alert manager fed with probe results and with analyses, among them
\* the analyses the Analyzer builds, one Process* call at a time.
ProcessAnalyzerAnalysis ==
    /\ calls = EmptyBag
    /\ \E analysis \in AIAnalyses \cup AnalyzerAnalyses :
          ProcessStart(analysis)

ProcessResultAlone == calls = EmptyBag /\ ProcessMonitoringResult

NextNoSource ==
    \/ Tick
    \/ ProcessResultAlone
    \/ ProcessAnalyzerAnalysis
    \/ \E c \in CallStates : ShouldTriggerAlert(c)
    \/ \E c \in CallStates : CreateAlertStep(c)

SpecNoSource == InitFixedIngester /\ [][NextNoSource]_vars

\* The alert manager with rules as AddRule stored them, with or without a
\* LastTriggered map.
InitAddRule ==
    /\ now = 0
    /\ InitIngester(2, 1)
    /\ checked = NoCheck
    /\ InitFn
    /\ \E nil \in SUBSET RuleIds : InitManagerRules(nil)
    /\ InitEngine
    /\ InitNotifier
    /\ InitCorrelation(FALSE)

SpecAddRule == InitAddRule /\ [][NextManager]_vars

\* checkAssertions applied to each of the inputs of CheckInputs.
InitAssertions ==
    /\ now = 0
    /\ InitIngester(2, 1)
    /\ InitManager
    /\ InitEngine
    /\ InitNotifier
    /\ InitCorrelation(FALSE)
    /\ checked \in CheckInputs
    /\ InitFn

SpecAssertions == InitAssertions /\ [][CheckAssertions]_vars

\* The probe scheduler.
SpecEngine == InitFixedIngester /\ [][NextEngine]_vars

\* The notification manager.
SpecNotifier == InitFixedIngester /\ [][NextNotifier]_vars

\* The alert manager with createAlert watched, one Process* call at a time.
InitCreate ==
    /\ now = 0
    /\ InitIngester(2, 1)
    /\ checked = NoCheck
    /\ InitFn
    /\ InitManagerWatched(TRUE)
    /\ InitEngine
    /\ InitNotifier
    /\ InitCorrelation(FALSE)

ProcessAlone ==
    /\ calls = EmptyBag
    /\ ProcessMonitoringResult \/ ProcessAIAnalysis

NextCreate ==
    \/ Tick
    \/ ProcessAlone
    \/ \E c \in CallStates : ShouldTriggerAlert(c)
    \/ \E c \in CallStates : CreateAlertStep(c)

SpecCreate == InitCreate /\ [][NextCreate]_vars

\* The notification manager with its dispatches watched, and at most
\* MaxInFlight Send calls at a time.
InitDispatch ==
    /\ now = 0
    /\ InitIngester(2, 1)
    /\ checked = NoCheck
    /\ InitFn
    /\ InitManager
    /\ InitEngine
    /\ InitNotifierWatched(TRUE)
    /\ InitCorrelation(FALSE)

SendAlone ==
    /\ BagCardinality(senders) < MaxInFlight
    /\ \E source \in Sources : Send(source)

NextDispatch ==
    \/ Tick
    \/ SendAlone
    \/ \E c \in SenderStates : CreateLimiter(c)
    \/ \E c \in SenderStates : SendReturn(c)

SpecDispatch == InitDispatch /\ [][NextDispatch]_vars

\* generateGroupKey applied to each pair of inputs of KeyInputs.
InitGroupKey ==
    /\ now = 0
    /\ InitIngester(2, 1)
    /\ checked = NoCheck
    /\ InitManager
    /\ InitEngine
    /\ InitNotifier
    /\ InitCorrelation(FALSE)
    /\ keyed \in KeyInputs
    /\ patterned = NoPattern
    /\ fit = NoFit
    /\ vectorized = NoVectorizer

SpecGroupKey == InitGroupKey /\ [][GenerateGroupKeys]_vars

\* extractErrorPattern applied to each message of Messages.
InitPattern ==
    /\ now = 0
    /\ InitIngester(2, 1)
    /\ checked = NoCheck
    /\ InitManager
    /\ InitEngine
    /\ InitNotifier
    /\ InitCorrelation(FALSE)
    /\ keyed = NoKeys
    /\ patterned \in PatternInputs
    /\ fit = NoFit
    /\ vectorized = NoVectorizer

SpecPattern == InitPattern /\ [][ExtractErrorPattern]_vars

\* DBSCAN.Fit on each input of FitInputs; the call runs on until it
\* returns.
InitFit ==
    /\ now = 0
    /\ InitIngester(2, 1)
    /\ checked = NoCheck
    /\ InitManager
    /\ InitEngine
    /\ InitNotifier
    /\ InitCorrelation(FALSE)
    /\ keyed = NoKeys
    /\ patterned = NoPattern
    /\ fit \in FitInputs
    /\ vectorized = NoVectorizer

SpecFit == InitFit /\ [][NextFit]_vars /\ WF_vars(NextFit)

\* NewTFIDFVectorizer, Fit on each corpus of Corpora, then one Transform.
InitVectorizer ==
    /\ now = 0
    /\ InitIngester(2, 1)
    /\ checked = NoCheck
    /\ InitManager
    /\ InitEngine
    /\ InitNotifier
    /\ InitCorrelation(FALSE)
    /\ keyed = NoKeys
    /\ patterned = NoPattern
    /\ fit = NoFit
    /\ vectorized \in VectorizerInputs

SpecVectorizer == InitVectorizer /\ [][NextVectorizer]_vars

\* The correlation engine.
InitCorrelationSpec ==
    /\ now = 0
    /\ InitIngester(2, 1)
    /\ \E shared \in BOOLEAN : InitComponents(shared)

\* The sweeper at work on the groups of one source.  cleanupRoutine's
\* ticker keeps firing while the process runs, and ce.mu is granted to a
\* waiting sweep; the clock runs on.
InitSweep ==
    /\ now = 0
    /\ InitIngester(2, 1)
    /\ InitComponents(FALSE)

ProcessAlertOfA ==
    \E alert \in AlertInputs(MaxTime) :
        alert.Source = "a" /\ ProcessAlert(alert)

NextSweep ==
    \/ Tick
    \/ ProcessAlertOfA
    \/ cleanup
    \/ \E groupID \in GroupKeys : ResolveGroup(groupID)

\* The groups of one source, fed with alerts made at the time they are
\* processed, with one GetActiveGroups call among the other operations.
ProcessFreshAlert ==
    \E alert \in AlertInputs(MaxTime) :
        alert.Source = "a" /\ alert.CreatedAt = now /\ ProcessAlert(alert)

NextActiveGroups ==
    \/ Tick
    \/ ProcessFreshAlert
    \/ cleanup
    \/ \E groupID \in GroupKeys : ResolveGroup(groupID)
    \/ GetActiveGroups

\* The groups of one source with ResolveGroup watched and called with the
\* ids of groups and with an id no group has.
InitResolve ==
    /\ now = 0
    /\ InitIngester(2, 1)
    /\ checked = NoCheck
    /\ InitFn
    /\ InitManager
    /\ InitEngine
    /\ InitNotifier
    /\ InitCorrelationWatched(FALSE, TRUE)

ResolveAny == \E groupID \in GroupKeys \cup { "none" } : ResolveGroup(groupID)

NextResolve ==
    \/ Tick
    \/ ProcessFreshAlert
    \/ cleanup
    \/ ResolveAny

SpecResolve == InitResolve /\ [][NextResolve]_vars

SpecActiveGroups == InitSweep /\ [][NextActiveGroups]_vars

SpecSweep ==
    /\ InitSweep
    /\ [][NextSweep]_vars
    /\ WF_vars(Tick)
    /\ WF_vars(cleanup)

SpecCorrelation == InitCorrelationSpec /\ [][NextCorrelation]_vars

Next ==
    \/ NextIngest
    \/ NextManager
    \/ NextEngine
    \/ CheckAssertions
    \/ NextNotifier
    \/ NextCorrelation
    \/ GenerateGroupKeys
    \/ GetActiveGroups
    \/ ExtractErrorPattern
    \/ Shutdown
    \/ NextFit
    \/ NextVectorizer

Spec == Init /\ [][Next]_vars

(***************************************************************************)
(* Properties of the ingester                                              *)
(***************************************************************************)
IngestQuiet == /\ \A c \in Callers : ingestPc[c] = "idle"
               /\ flushPc = "select"

Occurrences(s, x) == Cardinality({ i \in 1..Len(s) : s[i] = x })

Drained ==
    /\ buffer = << >>
    /\ batch = << >>
    /\ Len(storage) = Len(ingested)
    /\ \A i \in 1..Len(ingested) : Occurrences(storage, ingested[i]) = 1

\* C2: with a storage that always succeeds and a ticking flush loop, the
\* ingester eventually reaches, and then stays in, a state where the buffer
\* is empty and every accepted log is in storage exactly once.
C2_EventuallyDrained == <>[]Drained

C2_Witness ==
    /\ Drained
    /\ Len(ingested) >= 3
    /\ flushPc = "select"

\* C3: for every (application_id, service_name) stream, the logs of the
\* stream reach storage in the order in which IngestLog appended them.
C3_StreamOrder ==
    \A app \in {"app1", "app2"} :
        IsPrefix(SelectStream(storage, app, "svc"),
                 SelectStream(ingested, app, "svc"))

\* Two logs of one stream stored by different batches, after a failed insert
\* put a batch back while newer logs were waiting.
C3_Witness ==
    /\ Len(storage) >= 2
    /\ storage[1].application_id = storage[Len(storage)].application_id
    /\ Len(storage) > batchSize
    /\ flushPc = "failed"
    /\ Len(buffer) >= 2

\* C4: the buffer never holds more than bufferSize + batchSize logs.
C4_BufferBound == Len(buffer) <= bufferSize + batchSize

\* C9 (as claimed): in the size-trigger scenario, once 150 logs are pushed
\* and the size triggers are processed, all 150 logs are in storage and the
\* buffer is empty.
C9_AllStoredBySizeTriggers ==
    (Len(ingested) = 150 /\ IngestQuiet)
        => (buffer = << >> /\ Len(storage) = 150)

\* C9 (amended): in the size-trigger scenario, once 150 logs are pushed and
\* the size triggers are processed, every log is exactly once in storage or
\* in the buffer, and storage holds the first k * 50 logs in ingestion order
\* (k whole batches); the buffer need not be empty.
C9_SizeTriggersStoreWholeBatches ==
    (Len(ingested) = 150 /\ IngestQuiet)
        => /\ storage \o buffer = ingested
           /\ Len(storage) % 50 = 0
           /\ batch = << >>

C9_Witness ==
    /\ Len(ingested) = 150
    /\ IngestQuiet
    /\ Len(storage) = 100
    /\ Len(buffer) = 50

\* C10: after a failed flush the buffer is the buffer as it was when the
\* flush began followed by the logs ingested since, so the failed batch is
\* again at the head, in its original order, and is what the next flush takes.
C10_RequeueAtHead ==
    flushPc = "failed" =>
        /\ buffer = preFlush.buffer
                      \o SubSeq(ingested, preFlush.count + 1, Len(ingested))
        /\ IsPrefix(TakeBatch(preFlush.buffer,
                              BatchLen(preFlush.buffer, batchSize)),
                    TakeBatch(buffer, BatchLen(buffer, batchSize)))

\* A failed flush that left entries in the buffer and overlapped an IngestLog.
C10_Witness ==
    /\ flushPc = "failed"
    /\ Len(preFlush.buffer) > batchSize
    /\ Len(ingested) > preFlush.count

\* C11 as claimed: once the flush of the first tick after the failed flush
\* has succeeded, all seven logs are in storage.
C11_AllStoredOnNextTick ==
    (observed.flushes = << "failed", "ok" >> /\ flushPc = "select")
    => storage = ingested

\* C11 as amended: the failed flush leaves all seven logs in the buffer in
\* their order; the flush of the next tick stores the first five (one
\* batch) and leaves the last two buffered; the flush of the tick after
\* that stores them, so that all seven are in storage in their order.
C11_RetryStoresBatchByBatch ==
    /\ flushPc = "failed" => (buffer = ingested /\ storage = << >>)
    /\ (observed.flushes = << "failed", "ok" >> /\ flushPc = "select")
       => /\ storage = SubSeq(ingested, 1, 5)
          /\ buffer = SubSeq(ingested, 6, 7)
    /\ observed.flushes = << "failed", "ok", "ok" >>
       => (storage = ingested /\ buffer = << >>)

\* The second tick after the failed flush has stored the rest.
C11_Witness ==
    /\ observed.flushes = << "failed", "ok", "ok" >>
    /\ Len(storage) = 7

(***************************************************************************)
(* Properties of the alert manager                                         *)
(***************************************************************************)
Abs(x) == IF x < 0 THEN -x ELSE x

AlertsOf(r, s) == { a \in BagToSet(alerts) : a.rule = r /\ a.source_id = s }

\* The number of alerts createAlert has built for rule r and source id s.
BuiltCount(r, s) ==
    LET S == AlertsOf(r, s)
        RECURSIVE Sum(_)
        Sum(T) == IF T = { } THEN 0
                  ELSE LET a == CHOOSE x \in T : TRUE
                       IN CopiesIn(a, alerts) + Sum(T \ { a })
    IN Sum(S)

\* The calls that passed the gate of rule r for source id s and are about
\* to run createAlert.
Creating(r, s) ==
    { c \in BagToSet(calls) :
        c.pc = "create" /\ Head(c.rules) = r /\ getSourceID(c.event) = s }

\* C1: any two alerts created by one rule for one source id have created_at
\* timestamps at least the rule's cooldown apart.
C1_CooldownSpacing ==
    \A a, b \in BagToSet(alerts) :
        (/\ a.rule = b.rule
         /\ a.source_id = b.source_id
         /\ (a # b \/ CopiesIn(a, alerts) > 1))
        => Abs(a.created_at - b.created_at) >= Rules[a.rule].Cooldown

GatePassed(r, s) ==
    /\ s \in DOMAIN gates'[r]
    /\ gates'[r][s].passes =
           (IF s \in DOMAIN gates[r] THEN gates[r][s].passes ELSE 0) + 1

\* C28: whatever the interleaving of the calls in progress, an event passes
\* the cooldown gate of a rule only when no event of its source id passed
\* it before or the last one that did passed at least the rule's cooldown
\* earlier, and the pass is recorded in the same step.
C28_GateAtomic ==
    [][\A r \in RuleIds : \A s \in DOMAIN gates'[r] :
          GatePassed(r, s) =>
              /\ lastTriggered'[r][s] = now
              /\ s \in DOMAIN lastTriggered[r] =>
                     /\ gates[r][s].passes >= 1
                     /\ now - lastTriggered[r][s] >= Rules[r].Cooldown]_vars

\* A second event of target t1 was stopped by the gate of rule r1 while
\* the call of the first, which passed, is still on its way to createAlert.
C28_Witness ==
    /\ "t1" \in DOMAIN gates["r1"]
    /\ gates["r1"]["t1"].tests = 2
    /\ gates["r1"]["t1"].passes = 1
    /\ Creating("r1", "t1") # { }
    /\ now - lastTriggered["r1"]["t1"] < Rules["r1"].Cooldown

\* The call c leaves the gate of its first rule in this step.
LeavesGate(c) ==
    /\ c.pc = "gate"
    /\ CopiesIn(c, calls') < CopiesIn(c, calls)

\* The call c goes on from the gate to createAlert in this step.
EntersCreate(c) ==
    CopiesIn([ c EXCEPT !.pc = "create" ], calls')
        > CopiesIn([ c EXCEPT !.pc = "create" ], calls)

\* C31: an event with a source id that the cooldown gate skips (now -
\* last_triggered[source_id] < cooldown) leaves last_triggered unchanged and
\* creates no alert; any other event with a source id sets
\* last_triggered[source_id] = now in the step of the gate, and goes on to
\* createAlert exactly when its condition holds, so that one whose condition
\* does not hold creates no alert and still starts a cooldown.
C31_GateEffects ==
    [][\A c \in BagToSet(calls) :
          (LeavesGate(c) /\ getSourceID(c.event) # "") =>
              LET r == Head(c.rules)
                  s == getSourceID(c.event)
              IN /\ alerts' = alerts
                 /\ IF /\ s \in DOMAIN lastTriggered[r]
                       /\ now - lastTriggered[r][s] < Rules[r].Cooldown
                    THEN /\ lastTriggered' = lastTriggered
                         /\ ~EntersCreate(c)
                    ELSE /\ lastTriggered'[r][s] = now
                         /\ \A x \in RuleIds \ { r } :
                                lastTriggered'[x] = lastTriggered[x]
                         /\ EntersCreate(c) <=> evaluateConditions(r, c.event)]_vars

\* Rule r1 has let a result of target t1 pass that does not satisfy its
\* conditions: no alert, and the cooldown of t1 has started; a second result
\* of t1 has been skipped by the gate since.
C31_Witness ==
    /\ "t1" \in DOMAIN gates["r1"]
    /\ gates["r1"]["t1"].tests = 2
    /\ gates["r1"]["t1"].passes = 1
    /\ ~gates["r1"]["t1"].allSat
    /\ lastTriggered["r1"]["t1"] = gates["r1"]["t1"].first
    /\ BuiltCount("r1", "t1") = 0
    /\ Creating("r1", "t1") = { }

(***************************************************************************)
(* Properties of the probe scheduler                                       *)
(***************************************************************************)
EntriesOf(id) == { e \in entries : e.target.ID = id }

\* The ids registered by an AddTarget that succeeded.
Live == { id \in DOMAIN targets : targets[id].frequencyOk }

\* C5: the scheduler holds exactly one entry for each registered target id,
\* running checkTarget with the registered definition, and no entry for an
\* id that is not registered (a target whose AddTarget returned an error is
\* not counted as registered, and nothing is demanded of its id).
C5_OneEntryPerTarget ==
    /\ \A id \in Live :
          /\ Cardinality(EntriesOf(id)) = 1
          /\ \A e \in EntriesOf(id) : e.target = targets[id]
    /\ \A id \in TargetIds \ DOMAIN targets : EntriesOf(id) = { }

(***************************************************************************)
(* Properties of the rate limiter                                          *)
(***************************************************************************)
\* C6: in the window that starts when a source's first, empty bucket is
\* made, the number of Send calls the limiter admits for that source is at
\* most burst + floor(rate * elapsed), with rate = 1 / min_interval.
C6_TokenBucketBound ==
    \A src \in DOMAIN windowStart :
        admitted[src] <= Burst + ((now - windowStart[src]) \div MinInterval)

\* C34: the limiter installed in the rate-limit map for a source is never
\* replaced, so every Send for the source consults that one limiter.
C34_LimiterInstalledOnce ==
    [][\A src \in DOMAIN rateLimit :
          /\ src \in DOMAIN rateLimit'
          /\ rateLimit'[src] = rateLimit[src]]_vars

(***************************************************************************)
(* Properties of the correlation engine                                    *)
(***************************************************************************)
\* C7: every alert kept in a group has created_at no older than the
\* group's last_seen minus the time_window of the rule the group belongs to.
C7_AlertsWithinWindow ==
    \A k \in DOMAIN activeGroups :
        LET group == activeGroups[k]
        IN \A i \in 1..Len(group.Alerts) :
               group.Alerts[i].CreatedAt >=
                   group.LastSeen - CorrelationRules[group.origin].TimeWindow

\* With a rule variable of its own in each iteration of ProcessAlert's loop
\* the bound of C7 holds.
WithinWindowPerIteration == ~loopVarShared => C7_AlertsWithinWindow

\* A group whose older alert has been dropped by a later ProcessAlert.
PrunedGroup ==
    /\ ~loopVarShared
    /\ \E k \in DOMAIN activeGroups :
          /\ Len(activeGroups[k].Alerts) = 1
          /\ activeGroups[k].FirstSeen <
                 activeGroups[k].LastSeen -
                     CorrelationRules[activeGroups[k].origin].TimeWindow

\* C12: a group's score is the number of its alerts divided by the
\* min_count of its rule, and unless it was resolved its status is critical
\* iff that number is at least min_count, else active.
C12_ScoreAndStatus ==
    \A k \in DOMAIN activeGroups :
        LET group == activeGroups[k]
            rule == CorrelationRules[group.origin]
        IN /\ group.Score.num * rule.MinCount = Len(group.Alerts) * group.Score.den
           /\ group.Status # "resolved" =>
                  group.Status = (IF Len(group.Alerts) >= rule.MinCount
                                  THEN "critical" ELSE "active")

\* With a rule variable of its own in each iteration of ProcessAlert's loop
\* score and status are as C12 says.
ScoreAndStatusPerIteration == ~loopVarShared => C12_ScoreAndStatus

\* C35: the Rule pointer of every group leads to the rule the group was
\* made for, the one whose id begins the group's id.
C35_RuleIsOrigin ==
    \A k \in DOMAIN activeGroups :
        /\ activeGroups[k].Rule = activeGroups[k].origin
        /\ \E alert \in AlertInputs(0) :
               k = generateGroupKey(alert,
                                    CorrelationRules[activeGroups[k].Rule])

\* With a rule variable of its own in each iteration of ProcessAlert's loop
\* the pointer leads to the group's rule.
RuleIsOriginPerIteration == ~loopVarShared => C35_RuleIsOrigin

(***************************************************************************)
(* Properties of the probes                                                *)
(***************************************************************************)
\* C13: every firing has produced exactly one result, and that result has
\* been handed to the alert manager.
C13_OneResultDelivered ==
    /\ probes.results = probes.fired
    /\ probes.delivered = probes.fired

\* Every firing has produced exactly one result (no retry).
OneResultPerFiring == probes.results = probes.fired

KnownRuleTypes == { "contains", "json_path_exists", "regex" }

\* What the response rules are specified to mean.
RulePasses(rule, body) ==
    CASE rule.Type = "contains" -> Contains(body.text, rule.Value)
      [] rule.Type = "json_path_exists" -> body.json /\ rule.Path \in body.paths
      [] rule.Type = "regex" -> rule.Value \in body.matches
      [] OTHER -> FALSE

AllKnown(rules) == \A i \in 1..Len(rules) : rules[i].Type \in KnownRuleTypes

\* C14: for rules that parse and are of the known types, checkAssertions
\* returns true iff the status code is an expected one and every rule
\* passes.
C14_SuccessIffAllPass ==
    (/\ checked.done
     /\ checked.target.ResponseRules.parses
     /\ AllKnown(checked.target.ResponseRules.rules))
    => (checked.Success <=>
          /\ \E i \in 1..Len(checked.target.ExpectedStatus) :
                 checked.result.StatusCode = checked.target.ExpectedStatus[i]
          /\ \A i \in 1..Len(checked.target.ResponseRules.rules) :
                 RulePasses(checked.target.ResponseRules.rules[i],
                            checked.result.ResponseBody))

\* C15: checkAssertions returns false when the rules do not parse and when
\* a rule is of an unknown type.
C15_UnknownOrMalformedFails ==
    (/\ checked.done
     /\ \/ ~checked.target.ResponseRules.parses
        \/ ~AllKnown(checked.target.ResponseRules.rules))
    => ~checked.Success

\* Rules that do not parse make checkAssertions return false.
MalformedFails ==
    (checked.done /\ ~checked.target.ResponseRules.parses) => ~checked.Success

\* C20: no log with an empty application_id, service_name, severity or
\* message is ever appended; an IngestLog that returns an error leaves the
\* buffer, the flush loop and the pending triggers as they were; an
\* accepted log is appended once, at the tail of the buffer, and its call
\* returns nil, at once or after triggerFlush, which leaves the buffer alone.
C20_IngestLogContract ==
    [][ /\ \A k \in 1..Len(ingested') :
               /\ ingested'[k].application_id # ""
               /\ ingested'[k].service_name # ""
               /\ ingested'[k].severity # ""
               /\ ingested'[k].message # ""
        /\ \A j, k \in 1..Len(buffer') :
               buffer'[j].id = buffer'[k].id => j = k
        /\ \A c \in Callers :
               (ingestRet'[c] = "err" /\ ingestRet[c] # "err") =>
                   /\ buffer' = buffer
                   /\ ingested' = ingested
                   /\ flushPc' = flushPc
                   /\ ingestPc' = ingestPc
        /\ ingested' # ingested =>
               /\ Len(ingested') = Len(ingested) + 1
               /\ buffer' = Append(buffer, ingested'[Len(ingested')])
               /\ \E c \in Callers :
                      \/ ingestPc' = ingestPc /\ ingestRet'[c] = "nil"
                      \/ ingestPc[c] = "idle" /\ ingestPc'[c] = "trigger"
        /\ \A c \in Callers :
               (ingestPc[c] = "trigger" /\ ingestPc'[c] = "idle") =>
                   /\ ingestRet'[c] = "nil"
                   /\ buffer' = buffer
      ]_vars

\* One caller's IngestLog was rejected while the log another caller
\* appended is in the buffer, and that call returned nil.
C20_Witness ==
    /\ ingestRet[1] = "err"
    /\ ingestRet[2] = "nil"
    /\ Len(buffer) = 1
    /\ ingested = buffer

\* The number of places a log takes in the buffer, in the batch being
\* inserted and in storage.
Places(log) ==
    Cardinality({ k \in 1..Len(buffer) : buffer[k] = log })
        + Cardinality({ k \in 1..Len(batch) : batch[k] = log })
        + Cardinality({ k \in 1..Len(storage) : storage[k] = log })

\* C32: every log IngestLog accepted is in exactly one of the buffer, the
\* batch being inserted and storage, and nothing else is in them.
C32_AcceptedLogInOnePlace ==
    /\ \A k \in 1..Len(ingested) : Places(ingested[k]) = 1
    /\ Len(buffer) + Len(batch) + Len(storage) = Len(ingested)

\* A flush has failed after an earlier one succeeded and after IngestLog
\* calls that ran during it: its batch is back in the buffer with the newer
\* logs.
C32_Witness ==
    /\ flushPc = "failed"
    /\ storage # << >>
    /\ Len(ingested) = MaxLogs
    /\ Len(ingested) > preFlush.count
    /\ Len(buffer) > Len(preFlush.buffer)

\* C33: one flush at a time: a flush begins only when the flush loop waits in
\* its select, a batch is out of the buffer only during the one
\* BatchInsertLogs call of that flush, and a size trigger posted while the
\* loop is not waiting starts nothing and touches neither the batch nor the
\* buffer nor storage.
C33_OneFlushAtATime ==
    [][/\ batch # << >> => flushPc = "insert"
       /\ (flushPc' = "flush" /\ flushPc # "flush") => flushPc = "select"
       /\ (batch' # batch /\ batch' # << >>) =>
              (flushPc = "flush" /\ batch = << >>)
       /\ \A c \in Callers :
              (/\ ingestPc[c] = "trigger"
               /\ ingestPc'[c] = "idle"
               /\ flushPc # "select")
              => UNCHANGED << flushPc, batch, buffer, storage >>]_vars

\* Callers appended logs during a BatchInsertLogs call, the last append
\* filled the buffer and its post has returned; the call is still running.
C33_Witness ==
    /\ flushPc = "insert"
    /\ Len(ingested) > preFlush.count
    /\ Len(buffer) >= bufferSize
    /\ \A c \in Callers : ingestPc[c] = "idle"
    /\ Len(batch) = batchSize

\* C29: the post of the size trigger returns at once, and after appends made
\* while the flush loop is busy storing a batch it is dropped only when the
\* buffer is below bufferSize: a post dropped over a buffer that such an
\* append left at bufferSize or more has no flush caused by a size signal
\* after it, and the logs wait for the timer tick.
C29_DropOnlyWhenFlushed ==
    [][\A c \in Callers :
          (/\ ingestPc[c] = "trigger"
           /\ ingestPc'[c] = "idle"
           /\ flushPc = "insert"
           /\ flushPc' = flushPc
           /\ Len(ingested) > preFlush.count)
          => Len(buffer) < bufferSize]_vars

\* C26: when the process has been shut down, the flush loop has ended after
\* a last flush: no log is left in the buffer or in a batch, and every log
\* IngestLog accepted is in storage.
C26_FinalFlush ==
    flushPc = "exit" =>
        /\ buffer = << >>
        /\ batch = << >>
        /\ \A k \in 1..Len(ingested) :
               \E j \in 1..Len(storage) : storage[j] = ingested[k]

(***************************************************************************)
(* Properties of Send                                                      *)
(***************************************************************************)
\* C16: a Send that its limiter admitted has called sendToChannel exactly
\* once for every requested channel, has returned (no dispatcher is stuck
\* on reporting its error), and has returned an error iff a channel failed,
\* a channel that sendToChannel does not know counting as failed.
C16_DispatchAll ==
    LET send == lastSend.send
    IN send.ret \in { "nil", "err", "never" } =>
           /\ \A i \in 1..Len(send.channels) : send.calls[i] = 1
           /\ send.stuck = 0
           /\ send.ret # "never"
           /\ \A c \in BagToSet(senders) : c.pc # "stuck"
           /\ send.ret = "err" <=>
                  \E i \in 1..Len(send.channels) :
                      \/ send.channels[i] \notin KnownChannels
                      \/ i \in send.errs

\* A Send of two channels returned an error after the first channel failed
\* and the second was still dispatched to.
C16_Witness ==
    /\ lastSend.send.ret = "err"
    /\ Len(lastSend.send.channels) = 2
    /\ lastSend.send.errs = { 1 }
    /\ lastSend.send.calls[2] = 1

\* C17: a Send whose limiter had no whole token returned nil and called
\* sendToChannel for no channel; and a Send that made the limiter of its
\* source was suppressed.
C17_FirstSendSuppressed ==
    LET send == lastSend.send
    IN send.ret # "none" =>
           /\ lastSend.had < Token =>
                  /\ send.ret = "suppressed"
                  /\ \A i \in 1..Len(send.channels) : send.calls[i] = 0
           /\ lastSend.age # NoTime => send.ret = "suppressed"

\* C17 (amended): a Send whose limiter had no whole token returned nil and
\* called sendToChannel for no channel; and a Send that made the limiter of
\* its source and came to Allow less than MinInterval later was suppressed.
C17_FirstSendSuppressedInTime ==
    LET send == lastSend.send
    IN send.ret # "none" =>
           /\ lastSend.had < Token =>
                  /\ send.ret = "suppressed"
                  /\ \A i \in 1..Len(send.channels) : send.calls[i] = 0
           /\ (lastSend.age # NoTime /\ lastSend.age < MinInterval) =>
                  send.ret = "suppressed"

\* A Send made its limiter, called Allow at once and was suppressed with two
\* channels requested.
C17_Witness ==
    /\ lastSend.age = 0
    /\ lastSend.send.ret = "suppressed"
    /\ Len(lastSend.send.channels) = 2
    /\ lastSend.send.calls = << 0, 0 >>

(***************************************************************************)
(* Properties of createAlert                                               *)
(***************************************************************************)
\* C18: for every alert that SaveAlert stored, createAlert has called Send
\* once on each notifier, also on those after a notifier that failed, and
\* has returned nil; a Process* call fails only for an alert that was not
\* stored.
C18_NotifyAll ==
    /\ lastCreate.saved =>
           /\ Len(lastCreate.sent) = NumNotifiers
           /\ \A n \in 1..NumNotifiers : lastCreate.sent[n] = 1
           /\ lastCreate.ret = "nil"
    /\ \A a \in BagToSet(alerts) : a.saved => a.sends = NumNotifiers
    /\ returns.err =
           BagCardinality(alerts) -
           BagCardinality([ a \in { x \in BagToSet(alerts) : x.saved } |->
                              CopiesIn(a, alerts) ])

\* A stored alert whose first notifier failed: the later ones were still
\* called and createAlert returned nil.
C18_Witness ==
    /\ lastCreate.saved
    /\ ~lastCreate.sendOk[1]
    /\ lastCreate.sent[NumNotifiers] = 1
    /\ lastCreate.ret = "nil"

\* C37: when SaveAlert fails in createAlert, the Process* call ends there
\* with an error, whatever rules it has left, no Send is made for the
\* alert, and last_triggered keeps the time at which the event passed the
\* gate of the rule.
C37_SaveFailureEndsCall ==
    [][\A c \in BagToSet(calls) :
          LET a == [ rule |-> Head(c.rules),
                     source_id |-> getSourceID(c.event),
                     created_at |-> now, saved |-> FALSE, sends |-> 0 ]
          IN (/\ c.pc = "create"
              /\ CopiesIn(c, calls') < CopiesIn(c, calls)
              /\ BagCardinality(alerts') > BagCardinality(alerts)
              /\ \A x \in BagToSet(alerts') :
                     CopiesIn(x, alerts') > CopiesIn(x, alerts) => ~x.saved)
             => /\ alerts' = alerts (+) SetToBag({ a })
                /\ calls' = calls (-) SetToBag({ c })
                /\ returns' = [ returns EXCEPT !.err = @ + 1 ]
                /\ lastCreate'.ret = "err"
                /\ lastCreate'.sent = << >>
                /\ lastTriggered' = lastTriggered
                /\ a.source_id \in DOMAIN lastTriggered[a.rule]
                /\ lastTriggered[a.rule][a.source_id] <= now]_vars

\* SaveAlert failed for the alert of rule r1 and target t1: the call has
\* returned an error without trying rule r2, and the cooldown of r1 that
\* the event started is running.
C37_Witness ==
    /\ lastCreate.ret = "err"
    /\ calls = EmptyBag
    /\ started = 1
    /\ returns.err = 1
    /\ "t1" \in DOMAIN lastTriggered["r1"]
    /\ now - lastTriggered["r1"]["t1"] < Rules["r1"].Cooldown
    /\ "t1" \notin DOMAIN gates["r2"]

\* The TargetID of a probe result, the ID of an analysis.
IdField(event) ==
    IF event.kind = "monitoring" THEN event.TargetID ELSE event.ID

\* C39: an event whose TargetID or ID is empty never gets to createAlert, no
\* alert carries an empty source id, and the step in which such an event
\* leaves the gate of a rule changes neither a last_triggered map nor the
\* alerts; no last_triggered map has an entry for the empty id.
C39_NoSourceNoEffect ==
    [][/\ \A c \in BagToSet(calls) :
              IdField(c.event) = "" =>
                  /\ c.pc = "gate"
                  /\ LeavesGate(c) =>
                         /\ lastTriggered' = lastTriggered
                         /\ alerts' = alerts
                         /\ ~EntersCreate(c)
       /\ \A a \in BagToSet(alerts) : a.source_id # ""
       /\ \A r \in RuleIds :
              DOMAIN lastTriggered[r] \subseteq
                  { IdField(e) : e \in Events } \ { "" }]_vars

\* A probe result without target id and an analysis without id have been
\* processed to the end: no alert, no gate test, no last_triggered entry.
C39_Witness ==
    /\ started = 2
    /\ calls = EmptyBag
    /\ returns.nil = 2
    /\ alerts = EmptyBag
    /\ \A r \in RuleIds : gates[r] = << >> /\ lastTriggered[r] = << >>

\* C38: no Process* call fails on the LastTriggered map of a rule, whether
\* the rule was added with a map or without one.
C38_NoFailureOnLastTriggered == panics = 0

\* C19: every createAlert that has run, which is for an event that passed
\* the rule's cooldown test (LastTriggered was set) and satisfied its
\* conditions, has called Send at least once on each notifier.
C19_ConsumedCooldownNotified ==
    \A a \in BagToSet(alerts) :
        /\ a.source_id \in DOMAIN lastTriggered[a.rule]
        /\ a.sends >= NumNotifiers

\* The part that holds: the cooldown of every alert built was consumed, and
\* every stored alert was notified.
ConsumedCooldownStoredNotified ==
    \A a \in BagToSet(alerts) :
        /\ a.source_id \in DOMAIN lastTriggered[a.rule]
        /\ a.saved => a.sends >= NumNotifiers

(***************************************************************************)
(* Properties of the group key                                             *)
(***************************************************************************)
\* The values of the rule's group-by fields in the alert.
GroupValues(alert, rule) ==
    [ i \in 1..Len(rule.GroupBy) |-> FieldValue(alert, rule.GroupBy[i]) ]

\* C21: two alerts get the same group key, and so the same group, iff they
\* were grouped under the same rule and have the same values for all of
\* that rule's group-by fields.
C21_KeyIdentifiesGroup ==
    keyed.done /\ keyed.rule1 # << >> =>
        (keyed.key1 = keyed.key2 <=>
             /\ keyed.rule1.ID = keyed.rule2.ID
             /\ GroupValues(keyed.alert1, keyed.rule1) =
                    GroupValues(keyed.alert2, keyed.rule2))

\* The part that holds: the same rule and the same group-by values give the
\* same key, and rule ids and values without the separator give different
\* keys when they differ.
NoSeparator == { "c1", "c2", "x", "y", "z" }
KeyIdentifiesGroupWithoutSeparator ==
    keyed.done /\ keyed.rule1 # << >> =>
        /\ (/\ keyed.rule1.ID = keyed.rule2.ID
            /\ GroupValues(keyed.alert1, keyed.rule1) =
                   GroupValues(keyed.alert2, keyed.rule2))
           => keyed.key1 = keyed.key2
        /\ (/\ { keyed.rule1.ID, keyed.rule2.ID } \subseteq NoSeparator
            /\ Range(GroupValues(keyed.alert1, keyed.rule1)) \subseteq
                   NoSeparator
            /\ Range(GroupValues(keyed.alert2, keyed.rule2)) \subseteq
                   NoSeparator
            /\ keyed.key1 = keyed.key2)
           => /\ keyed.rule1.ID = keyed.rule2.ID
              /\ GroupValues(keyed.alert1, keyed.rule1) =
                     GroupValues(keyed.alert2, keyed.rule2)

(***************************************************************************)
(* Properties of the sweeper                                               *)
(***************************************************************************)
\* C22: a step that removes groups removes exactly those whose LastSeen is
\* more than groupTTL before now and leaves the other groups as they were,
\* so a group within groupTTL of now is never removed; and a group last
\* seen early enough for the clock of the model to pass its TTL is in the
\* end removed, unless a later alert moves its LastSeen.
C22_SweepRemovesExpired ==
    /\ [][ DOMAIN activeGroups' # DOMAIN activeGroups /\ processed' = processed
             => /\ DOMAIN activeGroups \ DOMAIN activeGroups' =
                       { k \in DOMAIN activeGroups :
                           now - activeGroups[k].LastSeen > groupTTL }
                /\ \A k \in DOMAIN activeGroups' :
                       /\ k \in DOMAIN activeGroups
                       /\ activeGroups'[k] = activeGroups[k] ]_vars
    /\ \A k \in GroupKeys, t \in 0..(MaxTime - groupTTL - 1) :
           (k \in DOMAIN activeGroups /\ activeGroups[k].LastSeen = t)
               ~> (k \notin DOMAIN activeGroups \/ activeGroups[k].LastSeen # t)

\* After two alerts only the group of the later one is left, with that one
\* alert: a sweep has removed the groups of the first alert and has kept
\* the group that was within its TTL.
C22_Witness ==
    /\ processed = 2
    /\ DOMAIN activeGroups = { "c2:monitoring:low" }
    /\ Len(activeGroups["c2:monitoring:low"].Alerts) = 1
    /\ now - activeGroups["c2:monitoring:low"].LastSeen <= groupTTL

(***************************************************************************)
(* Properties of GetActiveGroups                                           *)
(***************************************************************************)
\* C23: the slice a GetActiveGroups call returns holds each group of the
\* map that is not resolved once and no other, in an order in which no
\* group is followed by one of a higher score; and a step of ResolveGroup
\* leaves its group resolved, which a call made then does not return.
C23_ActiveSortedByScore ==
    [][ /\ (~held.returned /\ held'.returned) =>
               LET res == held'.groups
               IN /\ { res[i].key : i \in 1..Len(res) } =
                         { k \in DOMAIN activeGroups :
                             activeGroups[k].Status # "resolved" }
                  /\ \A i, j \in 1..Len(res) :
                         res[i].key = res[j].key => i = j
                  /\ \A i \in 1..Len(res) :
                         /\ res[i].snap = activeGroups[res[i].key]
                         /\ res[i].snap.Status # "resolved"
                  /\ \A i \in 1..(Len(res) - 1) :
                         res[i].snap.Score.num * res[i + 1].snap.Score.den >=
                         res[i + 1].snap.Score.num * res[i].snap.Score.den
        /\ \A k \in DOMAIN activeGroups :
               (/\ activeGroups[k].Status # "resolved"
                /\ k \in DOMAIN activeGroups'
                /\ activeGroups'[k].Status = "resolved")
               => /\ activeGroups' =
                         [ activeGroups EXCEPT ![k].Status = "resolved" ]
                  /\ \A q \in GetActiveGroupsResults(activeGroups') :
                         \A i \in 1..Len(q) : q[i] # k
      ]_vars

\* A call returned two groups of different scores, the higher first, while
\* a third, resolved group of the map was left out.
C23_Witness ==
    /\ held.returned
    /\ Len(held.groups) = 2
    /\ held.groups[1].snap.Score.num * held.groups[2].snap.Score.den >
           held.groups[2].snap.Score.num * held.groups[1].snap.Score.den
    /\ \E k \in DOMAIN activeGroups :
           /\ activeGroups[k].Status = "resolved"
           /\ \A i \in 1..2 : held.groups[i].key # k
           /\ \A i \in 1..2 : held.groups[i].obj = held.groups[i].snap

\* C30: every group a GetActiveGroups call returned is, whatever ran after
\* the return, as it was at the return: its alerts, status, score and
\* LastSeen.
C30_SnapshotUnchanged ==
    held.returned =>
        \A i \in 1..Len(held.groups) :
            /\ held.groups[i].obj.Alerts = held.groups[i].snap.Alerts
            /\ held.groups[i].obj.Status = held.groups[i].snap.Status
            /\ held.groups[i].obj.Score = held.groups[i].snap.Score
            /\ held.groups[i].obj.LastSeen = held.groups[i].snap.LastSeen

\* The part that holds: a sweep changes no group that was returned.
SnapshotUnchangedBySweep ==
    [][ (held.returned /\ DOMAIN activeGroups' # DOMAIN activeGroups
                       /\ processed' = processed)
            => \A i \in 1..Len(held.groups) :
                   held'.groups[i].obj = held.groups[i].obj ]_vars

(***************************************************************************)
(* Properties of extractErrorPattern                                       *)
(***************************************************************************)
\* C24: the pattern of a pattern is that pattern.
C24_ExtractIdempotent ==
    (patterned.done /\ patterned.message # << >>) =>
        patterned.twice = patterned.once

\* The part that holds: a pattern holds no digit.
PatternHasNoDigit ==
    patterned.done =>
        \A i \in 1..Len(patterned.once) : patterned.once[i] \notin Digits

\* C25: the pattern of the example message is
\* "user N at TIMESTAMP from EMAIL id UUID".
C25_ExampleNormalized ==
    (patterned.done /\ patterned.message = ExampleMessage) =>
        patterned.once =
            << "u", "s", "e", "r", " ", "N", " ", "a", "t", " ", "T", "I",
               "M", "E", "S", "T", "A", "M", "P", " ", "f", "r", "o", "m",
               " ", "E", "M", "A", "I", "L", " ", "i", "d", " ", "U", "U",
               "I", "D" >>

(***************************************************************************)
(* Properties of DBSCAN.Fit                                                *)
(***************************************************************************)
\* The points within Eps of point p, and whether p has MinPoints of them.
NeighboursOf(p) ==
    { q \in 1..Len(fit.vectors) : WithinEps(fit.vectors[p], fit.vectors[q]) }
IsCore(p) == Cardinality(NeighboursOf(p)) >= fit.MinPoints
ClusterIds == { fit.labels[p] : p \in 1..Len(fit.vectors) } \ { Noise }

\* C27: the labels Fit returns give every point with fewer than MinPoints
\* neighbours the label 0 and every other point a cluster id of 1 or more,
\* the ids in use being 1, 2, ... without a gap.
C27_NoiseIffFewNeighbours ==
    fit.pc = "done" =>
        /\ \A p \in 1..Len(fit.vectors) :
               IF IsCore(p) THEN fit.labels[p] >= 1
               ELSE fit.labels[p] = Noise
        /\ ClusterIds = 1..Cardinality(ClusterIds)

\* C27 (amended): Fit returns; its labels give the label 0 to exactly the
\* points that have fewer than MinPoints neighbours and are within Eps of
\* no point with MinPoints neighbours, and a cluster id of 1 or more to
\* every other point, the ids in use being 1, 2, ... without a gap.
C27_NoiseIffUnreachable ==
    /\ [](fit.pc = "done" =>
            /\ \A p \in 1..Len(fit.vectors) :
                   IF IsCore(p) \/ \E q \in NeighboursOf(p) : IsCore(q)
                   THEN fit.labels[p] >= 1
                   ELSE fit.labels[p] = Noise
            /\ ClusterIds = 1..Cardinality(ClusterIds))
    /\ <>(fit.pc = "done")

\* Fit has returned for three points: a point with three neighbours between
\* two points with two, which carry the id of its cluster.
C27_Witness ==
    /\ fit.pc = "done"
    /\ fit.MinPoints = 3
    /\ fit.vectors = << << 1, 0 >>, << 2, 1 >>, << 1, 1 >> >>
    /\ fit.labels = << 1, 1, 1 >>

(***************************************************************************)
(* Properties of ResolveGroup                                              *)
(***************************************************************************)
\* C36: ResolveGroup on a group of the map returns nil and changes nothing
\* but the group's status, so the group stays in the map; a later
\* ProcessAlert whose alert maps to the key of a resolved group appends the
\* alert and sets the status to active or critical, so that every
\* GetActiveGroups result holds the group again; ResolveGroup on an id that
\* is not in the map returns an error and changes no group.
C36_ResolvedGroupReopens ==
    [][/\ lastResolve' # lastResolve =>
              IF lastResolve'.id \in DOMAIN activeGroups
              THEN /\ lastResolve'.ret = "nil"
                   /\ activeGroups' =
                          [ activeGroups EXCEPT
                              ![lastResolve'.id].Status = "resolved" ]
              ELSE /\ lastResolve'.ret = "err"
                   /\ activeGroups' = activeGroups
       /\ \A k \in DOMAIN activeGroups :
              (/\ activeGroups[k].Status = "resolved"
               /\ processed' = processed + 1
               /\ activeGroups'[k] # activeGroups[k])
              => /\ activeGroups'[k].Status \in { "active", "critical" }
                 /\ activeGroups'[k].Alerts # << >>
                 /\ activeGroups'[k].LastSeen = now
                 /\ \A q \in GetActiveGroupsResults(activeGroups') :
                        \E i \in 1..Len(q) : q[i] = k]_vars

\* The group that the last ResolveGroup call resolved, made before that
\* call, is active or critical again.
C36_Witness ==
    /\ lastResolve.ret = "nil"
    /\ lastResolve.id \in DOMAIN activeGroups
    /\ activeGroups[lastResolve.id].FirstSeen < lastResolve.at
    /\ activeGroups[lastResolve.id].Status # "resolved"

(***************************************************************************)
(* Properties of TFIDFVectorizer                                           *)
(***************************************************************************)
Fitted == vectorized.pc \in { "fitted", "transformed" }

DenseInjection(vocabulary) ==
    /\ \A w1, w2 \in DOMAIN vocabulary :
         w1 # w2 => vocabulary[w1] # vocabulary[w2]
    /\ \A word \in DOMAIN vocabulary :
         vocabulary[word] \in 0..(Cardinality(DOMAIN vocabulary) - 1)

\* The tokens of the corpus, in the order Fit visits them.
RECURSIVE TokensFrom(_, _)
TokensFrom(documents, k) ==
    IF k > Len(documents) THEN << >>
    ELSE tokenize(documents[k]) \o TokensFrom(documents, k + 1)

NoRepeatedWord(documents) ==
    LET tokens == TokensFrom(documents, 1)
    IN \A i, j \in 1..Len(tokens) : i # j => tokens[i] # tokens[j]

\* C40: after Fit on any corpus, the vocabulary maps distinct words to
\* distinct indices in 0..|vocabulary|-1, and a Transform call returns a
\* vector of length |vocabulary| that holds the weight of each known word
\* of its text at the word's index.
C40_VocabularyDenseInjection ==
    /\ Fitted => DenseInjection(vectorized.vocabulary)
    /\ vectorized.pc = "transformed" =>
         /\ vectorized.ret = "vector"
         /\ DOMAIN vectorized.vector =
              0..(Cardinality(DOMAIN vectorized.vocabulary) - 1)

\* What the code keeps: the vocabulary is a dense injection after Fit on
\* a corpus in which no token occurs twice, in one document or in two.
DenseWithoutRepetition ==
    (Fitted /\ NoRepeatedWord(vectorized.documents))
        => DenseInjection(vectorized.vocabulary)

====
